---------------------------- MODULE Spec2Model ----------------------------
(***************************************************************************)
(* The client-side session state machine of the PDF chatbot frontend:      *)
(* the Dashboard component (frontend/src/components/LandingPage.tsx,       *)
(* second half), the older Chat component (unnamed/part_000) and the       *)
(* request helpers of frontend/src/api.ts.                                 *)
(*                                                                         *)
(* An async handler is cut at its awaits: one action per run-to-completion *)
(* segment.  The locals a segment leaves to the next one (the handler's    *)
(* closure) are kept in a frame (chatFrames, uploadFrames).  React state   *)
(* is committed between two browser events, so a handler reads the state   *)
(* variables as they are when it is invoked.                               *)
(*                                                                         *)
(* A text is a sequence of strings.  Texts whose characters the code       *)
(* inspects (the chat input, file names) are sequences of characters; a    *)
(* literal of the code is a sequence of chunks, cut so that every          *)
(* substring the code searches for ('fetch', 'Error') is a chunk of its    *)
(* own.  "" is <<>>.                                                       *)
(***************************************************************************)
EXTENDS Integers, Sequences, FiniteSets, TLC

VARIABLES
    route,            \* the mounted component: "dashboard" or "chat" (App.tsx)
    messages,         \* useState<MessageItem[]> / useState<Message[]>
    inputValue,       \* useState<string>
    isUploading,      \* useState<boolean>
    isProcessing,     \* useState<boolean>
    documents,        \* useState<Document[]> (Dashboard)
    temperature,      \* useState<number>, in tenths (Dashboard)
    uploadProgress,   \* useState<number> (Dashboard)
    processingStage,  \* useState<string> (Dashboard)
    chatFrames,       \* suspended sendMessageToBackend calls (awaiting /chat)
    uploadFrames,     \* suspended handleFileUpload calls (awaiting /upload or a timer)
    listFrames,       \* number of suspended loadDocuments calls (awaiting /documents)
    deleteFrames,     \* suspended handleDeleteDocument calls (awaiting DELETE), their ids
    model,            \* useState<string> (Dashboard)
    darkMode,         \* useState<boolean> (Dashboard)
    localStorage,     \* window.localStorage: key -> a text or absent
    advanced,         \* the values of the Advanced Settings inputs (DOM)
    authToken,        \* let authToken: string | null (api.ts)
    request,          \* the request the latest call of api.ts put on the wire
    returned,         \* what the latest call of api.ts returned or threw
    loginFrames,      \* suspended login calls (awaiting /login), their credentials
    now,              \* the wall clock read by Date.now()
    commands,         \* the number of commands that took effect, for MaxCommands
    last              \* the event that led to this state: [op, arg]

state == <<route, messages, inputValue, isUploading, isProcessing, documents,
           temperature, uploadProgress, processingStage, chatFrames,
           uploadFrames, listFrames, deleteFrames, now>>
\* the session: everything but the settings and api.ts
session == <<route, messages, inputValue, isUploading, isProcessing, documents,
             uploadProgress, processingStage, chatFrames, uploadFrames,
             listFrames, deleteFrames, now, commands>>
\* the settings other than temperature, and where they are kept
config == <<model, darkMode, localStorage, advanced>>
\* the state of api.ts and the traffic of its latest call
gateway == <<authToken, request, returned, loginFrames>>
vars == <<route, messages, inputValue, isUploading, isProcessing, documents,
          temperature, uploadProgress, processingStage, chatFrames,
          uploadFrames, listFrames, deleteFrames, now, model, darkMode,
          localStorage, advanced, authToken, request, returned, loginFrames,
          commands, last>>

---------------------------------------------------------------------------
(* Bounds of the model *)

\* at most this many commands take effect: a question sent, a file uploaded
\* or turned down (a command with no effect is not counted)
MaxCommands == 2
\* the clock is advanced freely up to this value (timers advance it further)
MaxClock == 1

---------------------------------------------------------------------------
(* Texts and the string functions the code uses *)

Whitespace == {" ", "\t", "\n"}

RECURSIVE trimStart(_)
trimStart(s) ==
    IF s # <<>> /\ Head(s) \in Whitespace THEN trimStart(Tail(s)) ELSE s

RECURSIVE trimEnd(_)
trimEnd(s) ==
    IF s # <<>> /\ s[Len(s)] \in Whitespace
    THEN trimEnd(SubSeq(s, 1, Len(s) - 1))
    ELSE s

trim(s) == trimEnd(trimStart(s))

lowerOf == [c \in {"A", "D", "F", "G", "N", "P"} |->
              CASE c = "A" -> "a" [] c = "D" -> "d" [] c = "F" -> "f"
                [] c = "G" -> "g" [] c = "N" -> "n" [] c = "P" -> "p"]

toLowerCase(s) ==
    [i \in 1..Len(s) |-> IF s[i] \in DOMAIN lowerOf THEN lowerOf[s[i]] ELSE s[i]]

endsWith(s, suffix) ==
    /\ Len(suffix) <= Len(s)
    /\ SubSeq(s, Len(s) - Len(suffix) + 1, Len(s)) = suffix

includes(s, sub) ==
    \E i \in 1..(Len(s) + 1) :
        /\ i + Len(sub) - 1 <= Len(s)
        /\ SubSeq(s, i, i + Len(sub) - 1) = sub

digits == <<"0", "1", "2", "3", "4", "5", "6", "7", "8", "9">>

RECURSIVE toString(_)
toString(n) ==
    IF n < 10 THEN <<digits[n + 1]>>
    ELSE toString(n \div 10) \o <<digits[(n % 10) + 1]>>

\* a JavaScript value that is a string or undefined
Undefined == [defined |-> FALSE, text |-> <<>>]
Str(t) == [defined |-> TRUE, text |-> t]
truthy(v) == v.defined /\ v.text # <<>>

---------------------------------------------------------------------------
(* What fetch() can deliver *)

NoBody == [parse |-> "none"]
NoError == [name |-> "none", message |-> <<>>]

\* fetch resolved with a Response
Response(status, statusText, body) ==
    [kind |-> "response", status |-> status, statusText |-> statusText,
     body |-> body, error |-> NoError]

\* fetch rejected: no status was received
Rejected(message) ==
    [kind |-> "rejected", status |-> 0, statusText |-> <<>>, body |-> NoBody,
     error |-> [name |-> "TypeError", message |-> message]]

ok(o) == o.status >= 200 /\ o.status <= 299

ErrorStatuses ==
    {Response(401, <<"Unauthorized">>, NoBody),
     Response(404, <<"Not Found">>, NoBody),
     Response(413, <<"Payload Too Large">>, NoBody),
     Response(400, <<"Bad Request">>, NoBody),
     Response(500, <<"Internal Server Error">>, NoBody)}

\* a 2xx body that is no JSON / that is the JSON value null
Unparseable == [parse |-> "syntaxError"]
JsonNull == [parse |-> "null"]
SyntaxError ==
    [name |-> "SyntaxError", message |-> <<"Unexpected token < in JSON at position 0">>]
NullRead(field) ==
    [name |-> "TypeError",
     message |-> <<"Cannot read properties of null (reading '", field, "')">>]
Error(message) == [name |-> "Error", message |-> message]

---------------------------------------------------------------------------
(* api.ts: sendMessage *)

ChatBody(response) == [parse |-> "object", response |-> response]

ChatOutcomes ==
    {Response(200, <<"OK">>, ChatBody(Str(<<"4", "2">>))),
     Response(200, <<"OK">>, ChatBody(Str(<<>>))),
     Response(200, <<"OK">>, Unparseable)}
    \cup {o \in ErrorStatuses : o.status \in {401, 500}}
    \cup {Rejected(<<"Failed to ", "fetch">>)}

AuthenticationRequired == <<"Authentication required. Please login.">>
ServiceNotFound ==
    <<"Service not found. Please check if the backend server is running.">>
ServerError == <<"Server error. Please try again later.">>
ConnectionFailed ==
    <<"Connection failed", ". Please check if the backend server is running and accessible.">>

\* the catch block of sendMessage
sendMessageCatch(error) ==
    IF error.name = "TypeError" /\ includes(error.message, <<"fetch">>)
    THEN [response |-> Str(ConnectionFailed)]
    ELSE IF error.message # <<>>
         THEN [response |-> Str(error.message)]
         ELSE [response |-> Str(<<"An unexpected error occurred. Please try again.">>)]

\* a faulty variant: status 401 is not told from the other statuses
sendMessage_No401(o) ==
    IF o.kind = "rejected" THEN sendMessageCatch(o.error)
    ELSE IF ~ok(o) THEN
        IF o.status = 404 THEN sendMessageCatch(Error(ServiceNotFound))
        ELSE IF o.status >= 500 THEN sendMessageCatch(Error(ServerError))
        ELSE sendMessageCatch(Error(<<"Backend error: ">> \o toString(o.status)
                                    \o <<" ">> \o o.statusText))
    ELSE IF o.body.parse = "syntaxError" THEN sendMessageCatch(SyntaxError)
    ELSE IF o.body.parse = "null" THEN sendMessageCatch(NullRead("response"))
    ELSE [response |-> o.body.response]

\* the value the promise of sendMessage resolves to, for fetch outcome o
sendMessage(o) ==
    IF o.kind = "rejected" THEN sendMessageCatch(o.error)
    ELSE IF ~ok(o) THEN
        IF o.status = 401 THEN sendMessageCatch(Error(AuthenticationRequired))
        ELSE IF o.status = 404 THEN sendMessageCatch(Error(ServiceNotFound))
        ELSE IF o.status >= 500 THEN sendMessageCatch(Error(ServerError))
        ELSE sendMessageCatch(Error(<<"Backend error: ">> \o toString(o.status)
                                    \o <<" ">> \o o.statusText))
    ELSE IF o.body.parse = "syntaxError" THEN sendMessageCatch(SyntaxError)
    ELSE IF o.body.parse = "null" THEN sendMessageCatch(NullRead("response"))
    ELSE [response |-> o.body.response]

---------------------------------------------------------------------------
(* Shared pieces *)

Remove(seq, i) == SubSeq(seq, 1, i - 1) \o SubSeq(seq, i + 1, Len(seq))

\* the chat inputs tried
InputTexts == {<<" ", "\t">>, <<" ", "a", " ">>}

\* a faulty variant: the input is not trimmed
blank_NoTrim(s) == s = <<>>

\* !inputValue.trim()
blank(s) == trim(s) = <<>>

\* a command that takes effect is counted
Counted ==
    /\ commands < MaxCommands
    /\ commands' = commands + 1

\* authToken before any login
Null == [defined |-> FALSE, text |-> <<>>]

\* no call of api.ts has been made
NoRequest == [path |-> "none", authorization |-> Undefined]
NoResult == [of |-> "none", threw |-> FALSE, value |-> <<>>]

\* the settings a first visit starts with, and localStorage after the mount
\* effects have written them
DefaultModel == <<"Flan-T5 Small">>
DefaultAdvanced == [chunkSize |-> 300, chunkOverlap |-> 50, maxTokens |-> 300]
FirstVisitStorage ==
    [temperature |-> Str(<<"0", ".", "1">>), model |-> Str(DefaultModel),
     darkMode |-> Str(<<"false">>)]

Init ==
    /\ route \in {"dashboard", "chat"}
    /\ deleteFrames = <<>>
    /\ model = DefaultModel
    /\ darkMode = FALSE
    /\ localStorage = FirstVisitStorage
    /\ advanced = DefaultAdvanced
    /\ authToken = Null
    /\ request = NoRequest
    /\ returned = NoResult
    /\ loginFrames = <<>>
    /\ messages = <<>>
    /\ inputValue = <<>>
    /\ isUploading = FALSE
    /\ isProcessing = FALSE
    /\ documents = <<>>
    /\ temperature = 1
    /\ uploadProgress = 0
    /\ processingStage = <<>>
    /\ chatFrames = <<>>
    /\ uploadFrames = <<>>
    \* the mount effect of Dashboard has called loadDocuments
    /\ listFrames = IF route = "dashboard" THEN 1 ELSE 0
    /\ now = 0
    /\ commands = 0
    /\ last = [op |-> "mount", arg |-> <<>>]

\* time passes
Tick ==
    /\ now < MaxClock
    /\ now' = now + 1
    /\ last' = [op |-> "Tick", arg |-> <<>>]
    /\ UNCHANGED <<commands, route, messages, inputValue, isUploading, isProcessing,
                   documents, temperature, uploadProgress, processingStage,
                   chatFrames, uploadFrames, listFrames>>
    /\ UNCHANGED <<deleteFrames, gateway, config>>

\* onChange of the chat input, which is disabled while isProcessing
setInputValue ==
    /\ ~isProcessing
    /\ \E v \in InputTexts \ {inputValue} :
        /\ inputValue' = v
        /\ last' = [op |-> "setInputValue", arg |-> v]
    /\ UNCHANGED <<commands, route, messages, isUploading, isProcessing, documents,
                   temperature, uploadProgress, processingStage, chatFrames,
                   uploadFrames, listFrames, now>>
    /\ UNCHANGED <<deleteFrames, gateway, config>>

---------------------------------------------------------------------------
(* Dashboard: sendMessageToBackend *)

CouldNotProcess == <<"I couldn't process that request. Please try again.">>

\* a faulty variant: setIsProcessing(true) is missing
sendMessageToBackend_NoBusy ==
    /\ route = "dashboard"
    /\ last' = [op |-> "sendMessageToBackend", arg |-> inputValue]
    /\ IF blank(inputValue) \/ isProcessing
       THEN UNCHANGED <<state, commands>>
       ELSE /\ Counted
            /\ LET userMessage ==
                       [id |-> toString(now), role |-> "user",
                        content |-> inputValue, timestamp |-> now]
               IN /\ messages' = Append(messages, userMessage)
                  /\ chatFrames' = Append(chatFrames,
                         [userMessage |-> userMessage, inputValue |-> inputValue,
                          temperature |-> temperature])
            /\ inputValue' = <<>>
            /\ processingStage' = <<"Processing your question...">>
            /\ UNCHANGED <<route, isUploading, isProcessing, documents,
                           temperature, uploadProgress, uploadFrames,
                           listFrames,
                           deleteFrames, now>>
    /\ UNCHANGED <<gateway, config>>

\* a faulty variant: the user Message is put in front of the timeline
sendMessageToBackend_Unshift ==
    /\ route = "dashboard"
    /\ last' = [op |-> "sendMessageToBackend", arg |-> inputValue]
    /\ IF blank(inputValue) \/ isProcessing
       THEN UNCHANGED <<state, commands>>
       ELSE /\ Counted
            /\ LET userMessage ==
                       [id |-> toString(now), role |-> "user",
                        content |-> inputValue, timestamp |-> now]
               IN /\ messages' = <<userMessage>> \o messages
                  /\ chatFrames' = Append(chatFrames,
                         [userMessage |-> userMessage, inputValue |-> inputValue,
                          temperature |-> temperature])
            /\ inputValue' = <<>>
            /\ isProcessing' = TRUE
            /\ processingStage' = <<"Processing your question...">>
            /\ UNCHANGED <<route, isUploading, documents, temperature,
                           uploadProgress, uploadFrames, listFrames,
                           deleteFrames, now>>
    /\ UNCHANGED <<gateway, config>>

\* a faulty variant: a send is turned down while a file is uploaded
sendMessageToBackend_WaitsForUpload ==
    /\ route = "dashboard"
    /\ last' = [op |-> "sendMessageToBackend", arg |-> inputValue]
    /\ IF blank(inputValue) \/ isProcessing \/ isUploading
       THEN UNCHANGED <<state, commands>>
       ELSE /\ Counted
            /\ LET userMessage ==
                       [id |-> toString(now), role |-> "user",
                        content |-> inputValue, timestamp |-> now]
               IN /\ messages' = Append(messages, userMessage)
                  /\ chatFrames' = Append(chatFrames,
                         [userMessage |-> userMessage, inputValue |-> inputValue,
                          temperature |-> temperature])
            /\ inputValue' = <<>>
            /\ isProcessing' = TRUE
            /\ processingStage' = <<"Processing your question...">>
            /\ UNCHANGED <<route, isUploading, documents, temperature,
                           uploadProgress, uploadFrames, listFrames,
                           deleteFrames, now>>
    /\ UNCHANGED <<gateway, config>>

\* the handler up to its await
sendMessageToBackend ==
    /\ route = "dashboard"
    /\ last' = [op |-> "sendMessageToBackend", arg |-> inputValue]
    /\ IF blank(inputValue) \/ isProcessing
       THEN UNCHANGED <<state, commands>>
       ELSE /\ Counted
            /\ LET userMessage ==
                       [id |-> toString(now), role |-> "user",
                        content |-> inputValue, timestamp |-> now]
               IN /\ messages' = Append(messages, userMessage)
                  /\ chatFrames' = Append(chatFrames,
                         [userMessage |-> userMessage, inputValue |-> inputValue,
                          temperature |-> temperature])
            /\ inputValue' = <<>>
            /\ isProcessing' = TRUE
            /\ processingStage' = <<"Processing your question...">>
            /\ UNCHANGED <<route, isUploading, documents, temperature,
                           uploadProgress, uploadFrames, listFrames,
                           deleteFrames, now>>
    /\ UNCHANGED <<gateway, config>>

\* a faulty variant: a call that did not succeed adds nothing to the timeline
sendMessageResume_SilentOnError ==
    /\ route = "dashboard"
    /\ \E i \in DOMAIN chatFrames, o \in ChatOutcomes :
        LET data == sendMessage(o)
            response == IF truthy(data.response) THEN data.response.text
                        ELSE CouldNotProcess
            botMessage == [id |-> toString(now + 1), role |-> "assistant",
                           content |-> response, timestamp |-> now]
        IN /\ chatFrames' = Remove(chatFrames, i)
           /\ last' = [op |-> "sendMessageResume", arg |-> o]
           /\ IF o.kind = "response" /\ ok(o)
              THEN messages' = Append(messages, botMessage)
              ELSE UNCHANGED messages
    /\ isProcessing' = FALSE
    /\ processingStage' = <<>>
    /\ UNCHANGED <<commands, route, inputValue, isUploading, documents,
                   temperature, uploadProgress, uploadFrames, listFrames, now>>
    /\ UNCHANGED <<deleteFrames, gateway, config>>

\* a faulty variant: the finally block is missing
sendMessageResume_NoFinally ==
    /\ route = "dashboard"
    /\ \E i \in DOMAIN chatFrames, o \in ChatOutcomes :
        LET data == sendMessage(o)
            response == IF truthy(data.response) THEN data.response.text
                        ELSE CouldNotProcess
            botMessage == [id |-> toString(now + 1), role |-> "assistant",
                           content |-> response, timestamp |-> now]
        IN /\ messages' = Append(messages, botMessage)
           /\ chatFrames' = Remove(chatFrames, i)
           /\ last' = [op |-> "sendMessageResume", arg |-> o]
    /\ UNCHANGED <<commands, route, inputValue, isUploading, isProcessing,
                   documents, temperature, uploadProgress, processingStage,
                   uploadFrames, listFrames, now>>
    /\ UNCHANGED <<deleteFrames, gateway, config>>

\* a faulty variant: the reply is put in front of the timeline
sendMessageResume_Prepends ==
    /\ route = "dashboard"
    /\ \E i \in DOMAIN chatFrames, o \in ChatOutcomes :
        LET data == sendMessage(o)
            response == IF truthy(data.response) THEN data.response.text
                        ELSE CouldNotProcess
            botMessage == [id |-> toString(now + 1), role |-> "assistant",
                           content |-> response, timestamp |-> now]
        IN /\ messages' = <<botMessage>> \o messages
           /\ chatFrames' = Remove(chatFrames, i)
           /\ last' = [op |-> "sendMessageResume", arg |-> o]
    /\ isProcessing' = FALSE
    /\ processingStage' = <<>>
    /\ UNCHANGED <<commands, route, inputValue, isUploading, documents,
                   temperature, uploadProgress, uploadFrames, listFrames, now>>
    /\ UNCHANGED <<deleteFrames, gateway, config>>


\* a faulty variant: the reply is appended twice
sendMessageResume_RepliesTwice ==
    /\ route = "dashboard"
    /\ \E i \in DOMAIN chatFrames, o \in ChatOutcomes :
        LET data == sendMessage(o)
            response == IF truthy(data.response) THEN data.response.text
                        ELSE CouldNotProcess
            botMessage == [id |-> toString(now + 1), role |-> "assistant",
                           content |-> response, timestamp |-> now]
        IN /\ messages' = messages \o <<botMessage, botMessage>>
           /\ chatFrames' = Remove(chatFrames, i)
           /\ last' = [op |-> "sendMessageResume", arg |-> o]
    /\ isProcessing' = FALSE
    /\ processingStage' = <<>>
    /\ UNCHANGED <<commands, route, inputValue, isUploading, documents, temperature,
                   uploadProgress, uploadFrames, listFrames, now>>
    /\ UNCHANGED <<deleteFrames, gateway, config>>

\* the handler from its await on: sendMessage never throws, so the catch
\* block of the handler is not reached
sendMessageResume ==
    /\ route = "dashboard"
    /\ \E i \in DOMAIN chatFrames, o \in ChatOutcomes :
        LET data == sendMessage(o)
            response == IF truthy(data.response) THEN data.response.text
                        ELSE CouldNotProcess
            botMessage == [id |-> toString(now + 1), role |-> "assistant",
                           content |-> response, timestamp |-> now]
        IN /\ messages' = Append(messages, botMessage)
           /\ chatFrames' = Remove(chatFrames, i)
           /\ last' = [op |-> "sendMessageResume", arg |-> o]
    /\ isProcessing' = FALSE
    /\ processingStage' = <<>>
    /\ UNCHANGED <<commands, route, inputValue, isUploading, documents, temperature,
                   uploadProgress, uploadFrames, listFrames, now>>
    /\ UNCHANGED <<deleteFrames, gateway, config>>

---------------------------------------------------------------------------
(* Chat: sendMessageToBackend *)

Chat_sendMessageToBackend ==
    /\ route = "chat"
    /\ last' = [op |-> "sendMessageToBackend", arg |-> inputValue]
    /\ IF blank(inputValue) \/ isProcessing
       THEN UNCHANGED <<state, commands>>
       ELSE /\ Counted
            /\ LET newMessage == [role |-> "user", content |-> inputValue]
               IN /\ messages' = Append(messages, newMessage)
                  /\ chatFrames' = Append(chatFrames,
                         [userMessage |-> newMessage, inputValue |-> inputValue,
                          temperature |-> 1])
            /\ inputValue' = <<>>
            /\ isProcessing' = TRUE
            /\ UNCHANGED <<route, isUploading, documents, temperature,
                           uploadProgress, processingStage, uploadFrames,
                           listFrames,
                           deleteFrames, now>>
    /\ UNCHANGED <<gateway, config>>

\* a faulty variant: a call that was rejected is made again
Chat_sendMessageResume_Retries ==
    /\ route = "chat"
    /\ \E i \in DOMAIN chatFrames, o \in ChatOutcomes :
        LET data == sendMessage(o)
            response == IF truthy(data.response) THEN data.response.text
                        ELSE CouldNotProcess
        IN /\ last' = [op |-> "sendMessageResume", arg |-> o]
           /\ IF o.kind = "rejected"
              THEN UNCHANGED <<messages, chatFrames, isProcessing>>
              ELSE /\ messages' = Append(messages,
                          [role |-> "assistant", content |-> response])
                   /\ chatFrames' = Remove(chatFrames, i)
                   /\ isProcessing' = FALSE
    /\ UNCHANGED <<commands, route, inputValue, isUploading, documents, temperature,
                   uploadProgress, processingStage, uploadFrames, listFrames,
                   now>>
    /\ UNCHANGED <<deleteFrames, gateway, config>>

Chat_sendMessageResume ==
    /\ route = "chat"
    /\ \E i \in DOMAIN chatFrames, o \in ChatOutcomes :
        LET data == sendMessage(o)
            response == IF truthy(data.response) THEN data.response.text
                        ELSE CouldNotProcess
        IN /\ messages' = Append(messages,
                              [role |-> "assistant", content |-> response])
           /\ chatFrames' = Remove(chatFrames, i)
           /\ last' = [op |-> "sendMessageResume", arg |-> o]
    /\ isProcessing' = FALSE
    /\ UNCHANGED <<commands, route, inputValue, isUploading, documents, temperature,
                   uploadProgress, processingStage, uploadFrames, listFrames,
                   now>>
    /\ UNCHANGED <<deleteFrames, gateway, config>>

---------------------------------------------------------------------------
(* api.ts: uploadFile *)

UploadBody(filename, status) ==
    [parse |-> "object", filename |-> filename, status |-> status]

ServerFilename == <<"a", ".", "p", "d", "f">>

UploadOutcomes ==
    {Response(200, <<"OK">>, UploadBody(Str(ServerFilename), Str(<<"success">>))),
     Response(200, <<"OK">>,
              UploadBody(Str(ServerFilename), Str(<<"Error", ": no text in PDF">>))),
     Response(200, <<"OK">>, JsonNull)}
    \cup {o \in ErrorStatuses : o.status \in {401, 500}}

\* what uploadFile resolves to: the parsed body (an object or null), or
\* {error: text}
UploadData(error, filename, status) ==
    [isNull |-> FALSE, error |-> error, filename |-> filename, status |-> status]
UploadNull ==
    [isNull |-> TRUE, error |-> Undefined, filename |-> Undefined,
     status |-> Undefined]

\* the catch block of uploadFile
uploadFileCatch(error) ==
    IF error.name = "TypeError" /\ includes(error.message, <<"fetch">>)
    THEN UploadData(Str(ConnectionFailed), Undefined, Undefined)
    ELSE IF error.message # <<>>
         THEN UploadData(Str(error.message), Undefined, Undefined)
         ELSE UploadData(Str(<<"File upload failed. Please try again.">>),
                         Undefined, Undefined)

uploadFile(o) ==
    IF o.kind = "rejected" THEN uploadFileCatch(o.error)
    ELSE IF ~ok(o) THEN
        IF o.status = 401 THEN uploadFileCatch(Error(AuthenticationRequired))
        ELSE IF o.status = 413
        THEN uploadFileCatch(Error(<<"File too large. Please upload a smaller file.">>))
        ELSE uploadFileCatch(Error(<<"Upload failed: ">> \o toString(o.status)
                                   \o <<" ">> \o o.statusText))
    ELSE IF o.body.parse = "syntaxError" THEN uploadFileCatch(SyntaxError)
    ELSE IF o.body.parse = "null" THEN UploadNull
    ELSE UploadData(Undefined, o.body.filename, o.body.status)

---------------------------------------------------------------------------
(* api.ts: listDocuments *)

ListBody(docs) == [parse |-> "object", documents |-> docs]
NoList == [defined |-> FALSE, list |-> <<>>]
List(l) == [defined |-> TRUE, list |-> l]

MiB == 1024 * 1024

\* a document the server knows
ServerDocument ==
    [id |-> <<"s", "1">>, name |-> <<"a", ".", "p", "d", "f">>, size |-> 5 * MiB,
     uploadDate |-> 0, status |-> "completed"]

ListOutcomes ==
    {Response(200, <<"OK">>, ListBody(List(<<>>))),
     Response(200, <<"OK">>, ListBody(List(<<ServerDocument>>)))}
    \cup {o \in ErrorStatuses : o.status \in {401, 500}}

\* listDocuments rethrows what it catches
listDocuments(o) ==
    IF o.kind = "rejected" THEN [threw |-> TRUE, isNull |-> FALSE, documents |-> NoList]
    ELSE IF ~ok(o) THEN [threw |-> TRUE, isNull |-> FALSE, documents |-> NoList]
    ELSE IF o.body.parse = "syntaxError"
    THEN [threw |-> TRUE, isNull |-> FALSE, documents |-> NoList]
    ELSE IF o.body.parse = "null"
    THEN [threw |-> FALSE, isNull |-> TRUE, documents |-> NoList]
    ELSE [threw |-> FALSE, isNull |-> FALSE, documents |-> o.body.documents]

---------------------------------------------------------------------------
(* Dashboard: loadDocuments, from its await on *)

\* a faulty variant: the catch block empties the collection
loadDocumentsResume_ClearsOnError ==
    /\ route = "dashboard"
    /\ listFrames > 0
    /\ listFrames' = listFrames - 1
    /\ \E o \in ListOutcomes :
        LET docsData == listDocuments(o) IN
        /\ last' = [op |-> "loadDocumentsResume", arg |-> o]
        /\ IF docsData.threw
           THEN /\ messages' = Append(messages, [
                      id |-> toString(now), role |-> "assistant",
                      content |-> <<"Error loading documents. Please refresh the page or check your connection.">>,
                      timestamp |-> now])
                /\ documents' = <<>>
           ELSE IF ~docsData.isNull /\ docsData.documents.defined
           THEN /\ documents' =
                      [k \in 1..Len(docsData.documents.list) |->
                          LET doc == docsData.documents.list[k] IN
                          [id |-> doc.id, name |-> doc.name, size |-> doc.size,
                           uploadDate |-> doc.uploadDate, status |-> doc.status]]
                /\ UNCHANGED messages
           ELSE UNCHANGED <<messages, documents>>
    /\ UNCHANGED <<commands, route, inputValue, isUploading, isProcessing, temperature,
                   uploadProgress, processingStage, chatFrames, uploadFrames,
                   now>>
    /\ UNCHANGED <<deleteFrames, gateway, config>>

\* a faulty variant: the server's list is added to the collection
loadDocumentsResume_Appends ==
    /\ route = "dashboard"
    /\ listFrames > 0
    /\ listFrames' = listFrames - 1
    /\ \E o \in ListOutcomes :
        LET docsData == listDocuments(o) IN
        /\ last' = [op |-> "loadDocumentsResume", arg |-> o]
        /\ IF docsData.threw
           THEN /\ messages' = Append(messages, [
                      id |-> toString(now), role |-> "assistant",
                      content |-> <<"Error loading documents. Please refresh the page or check your connection.">>,
                      timestamp |-> now])
                /\ UNCHANGED documents
           ELSE IF ~docsData.isNull /\ docsData.documents.defined
           THEN /\ documents' = documents \o
                      [k \in 1..Len(docsData.documents.list) |->
                          LET doc == docsData.documents.list[k] IN
                          [id |-> doc.id, name |-> doc.name, size |-> doc.size,
                           uploadDate |-> doc.uploadDate, status |-> doc.status]]
                /\ UNCHANGED messages
           ELSE UNCHANGED <<messages, documents>>
    /\ UNCHANGED <<commands, route, inputValue, isUploading, isProcessing, temperature,
                   uploadProgress, processingStage, chatFrames, uploadFrames,
                   now>>
    /\ UNCHANGED <<deleteFrames, gateway, config>>

loadDocumentsResume ==
    /\ route = "dashboard"
    /\ listFrames > 0
    /\ listFrames' = listFrames - 1
    /\ \E o \in ListOutcomes :
        LET docsData == listDocuments(o) IN
        /\ last' = [op |-> "loadDocumentsResume", arg |-> o]
        /\ IF docsData.threw
           THEN /\ messages' = Append(messages, [
                      id |-> toString(now), role |-> "assistant",
                      content |-> <<"Error loading documents. Please refresh the page or check your connection.">>,
                      timestamp |-> now])
                /\ UNCHANGED documents
           ELSE IF ~docsData.isNull /\ docsData.documents.defined
           THEN /\ documents' =
                      [k \in 1..Len(docsData.documents.list) |->
                          LET doc == docsData.documents.list[k] IN
                          [id |-> doc.id, name |-> doc.name, size |-> doc.size,
                           uploadDate |-> doc.uploadDate, status |-> doc.status]]
                /\ UNCHANGED messages
           ELSE UNCHANGED <<messages, documents>>
    /\ UNCHANGED <<commands, route, inputValue, isUploading, isProcessing, temperature,
                   uploadProgress, processingStage, chatFrames, uploadFrames,
                   now>>
    /\ UNCHANGED <<deleteFrames, gateway, config>>

---------------------------------------------------------------------------
(* Dashboard: handleFileUpload *)

\* the files tried
Files ==
    {[name |-> <<"A", ".", "P", "D", "F">>, size |-> 10 * MiB],
     [name |-> <<"a", ".", "p", "d", "f">>, size |-> 10 * MiB + 1],
     [name |-> <<"a", "p", "d", "f">>, size |-> 5 * MiB],
     [name |-> <<"a", ".", "p", "n", "g">>, size |-> 5 * MiB]}

\* a faulty variant: the dot of the extension is not asked for
isPdf_NoDot(file) == endsWith(toLowerCase(file.name), <<"p", "d", "f">>)

\* file.name.toLowerCase().endsWith('.pdf')
isPdf(file) == endsWith(toLowerCase(file.name), <<".", "p", "d", "f">>)

\* a faulty variant: the limit is 11 MiB
tooLarge_Above11(file) == file.size > 11 * 1024 * 1024

\* file.size > 10 * 1024 * 1024
tooLarge(file) == file.size > 10 * 1024 * 1024

NoDocument ==
    [id |-> <<>>, name |-> <<>>, size |-> 0, uploadDate |-> 0, status |-> "none"]

\* the buttons that open the file input: the sidebar's is disabled while
\* isUploading, the Documents tab's is not, the empty list's is shown
\* while there is no Document
UploadButtons == {"Upload PDF", "Upload Document", "Upload Your First Document"}
buttonEnabled(button) ==
    CASE button = "Upload PDF" -> ~isUploading
      [] button = "Upload Document" -> TRUE
      [] button = "Upload Your First Document" -> documents = <<>>

assistantMessage(content) ==
    [id |-> toString(now), role |-> "assistant", content |-> content,
     timestamp |-> now]

\* a faulty variant: a file turned down sets isUploading back
handleFileUpload_RejectResets ==
    /\ route = "dashboard"
    /\ \E button \in UploadButtons, file \in Files :
        /\ buttonEnabled(button)
        /\ Counted
        /\ last' = [op |-> "handleFileUpload", arg |-> file]
        /\ IF ~isPdf(file)
           THEN /\ messages' = Append(messages,
                       assistantMessage(<<"Please upload a PDF file.">>))
                /\ isUploading' = FALSE
                /\ UNCHANGED <<route, inputValue, isProcessing,
                               documents, temperature, uploadProgress,
                               processingStage, chatFrames, uploadFrames,
                               listFrames, now>>
           ELSE IF tooLarge(file)
           THEN /\ messages' = Append(messages, assistantMessage(
                       <<"File size exceeds 10MB limit. Please upload a smaller file.">>))
                /\ isUploading' = FALSE
                /\ UNCHANGED <<route, inputValue, isProcessing,
                               documents, temperature, uploadProgress,
                               processingStage, chatFrames, uploadFrames,
                               listFrames, now>>
           ELSE /\ isUploading' = TRUE
                /\ uploadProgress' = 0
                /\ processingStage' = <<"Uploading document...">>
                /\ uploadFrames' = Append(uploadFrames,
                       [file |-> file, pc |-> "uploadFile",
                        newDocument |-> NoDocument])
                /\ UNCHANGED <<route, messages, inputValue, isProcessing,
                               documents, temperature, chatFrames, listFrames,
                               now>>
    /\ UNCHANGED <<deleteFrames, gateway, config>>

\* the handler up to its await of uploadFile, for the file chosen (the
\* return on an empty selection changes nothing and is left out)
handleFileUpload ==
    /\ route = "dashboard"
    /\ \E button \in UploadButtons, file \in Files :
        /\ buttonEnabled(button)
        /\ Counted
        /\ last' = [op |-> "handleFileUpload", arg |-> file]
        /\ IF ~isPdf(file)
           THEN /\ messages' = Append(messages,
                       assistantMessage(<<"Please upload a PDF file.">>))
                /\ UNCHANGED <<route, inputValue, isUploading, isProcessing,
                               documents, temperature, uploadProgress,
                               processingStage, chatFrames, uploadFrames,
                               listFrames, now>>
           ELSE IF tooLarge(file)
           THEN /\ messages' = Append(messages, assistantMessage(
                       <<"File size exceeds 10MB limit. Please upload a smaller file.">>))
                /\ UNCHANGED <<route, inputValue, isUploading, isProcessing,
                               documents, temperature, uploadProgress,
                               processingStage, chatFrames, uploadFrames,
                               listFrames, now>>
           ELSE /\ isUploading' = TRUE
                /\ uploadProgress' = 0
                /\ processingStage' = <<"Uploading document...">>
                /\ uploadFrames' = Append(uploadFrames,
                       [file |-> file, pc |-> "uploadFile",
                        newDocument |-> NoDocument])
                /\ UNCHANGED <<route, messages, inputValue, isProcessing,
                               documents, temperature, chatFrames, listFrames,
                               now>>
    /\ UNCHANGED <<deleteFrames, gateway, config>>

\* uploadFile has resolved: the Document is created and the first timer
\* set.  The handler does not look at the result before its last segment,
\* where the model draws it.  Frames whose timers run are kept in the order
\* the timers were set.
handleFileUploadResume ==
    /\ route = "dashboard"
    /\ \E i \in DOMAIN uploadFrames :
        LET frame == uploadFrames[i]
            newDocument == [id |-> toString(now), name |-> frame.file.name,
                            size |-> frame.file.size, uploadDate |-> now,
                            status |-> "processing"]
        IN /\ frame.pc = "uploadFile"
           /\ documents' = Append(documents, newDocument)
           /\ uploadFrames' = Append(Remove(uploadFrames, i),
                  [frame EXCEPT !.pc = "timer1", !.newDocument = newDocument])
           /\ last' = [op |-> "handleFileUploadResume", arg |-> frame.file]
    /\ processingStage' = <<"Extracting text from PDF...">>
    /\ UNCHANGED <<commands, route, messages, inputValue, isUploading,
                   isProcessing, temperature, uploadProgress, chatFrames,
                   listFrames, now>>
    /\ UNCHANGED <<deleteFrames, gateway, config>>

\* the timer of frame i fires.  Time has passed since it was set; the timers
\* of one stage last the same and fire in the order they were set.
timerDue(i) ==
    \A j \in 1..(i - 1) : uploadFrames[j].pc # uploadFrames[i].pc

handleFileUploadTimer1 ==
    /\ route = "dashboard"
    /\ \E i \in DOMAIN uploadFrames :
        /\ uploadFrames[i].pc = "timer1"
        /\ timerDue(i)
        /\ uploadFrames' = [uploadFrames EXCEPT ![i].pc = "timer2"]
        /\ last' = [op |-> "handleFileUploadTimer1", arg |-> i]
    /\ now' = now + 1
    /\ processingStage' = <<"Creating embeddings...">>
    /\ UNCHANGED <<commands, route, messages, inputValue, isUploading,
                   isProcessing, documents, temperature, uploadProgress,
                   chatFrames, listFrames>>
    /\ UNCHANGED <<deleteFrames, gateway, config>>

handleFileUploadTimer2 ==
    /\ route = "dashboard"
    /\ \E i \in DOMAIN uploadFrames :
        /\ uploadFrames[i].pc = "timer2"
        /\ timerDue(i)
        /\ uploadFrames' = [uploadFrames EXCEPT ![i].pc = "timer3"]
        /\ last' = [op |-> "handleFileUploadTimer2", arg |-> i]
    /\ now' = now + 1
    /\ processingStage' = <<"Building vector store...">>
    /\ UNCHANGED <<commands, route, messages, inputValue, isUploading,
                   isProcessing, documents, temperature, uploadProgress,
                   chatFrames, listFrames>>
    /\ UNCHANGED <<deleteFrames, gateway, config>>

\* setDocuments(prev => prev.map(doc => doc.id === id ? {...doc, status} : doc))
setStatus(docs, id, status) ==
    [k \in 1..Len(docs) |->
        IF docs[k].id = id THEN [docs[k] EXCEPT !.status = status] ELSE docs[k]]

template(v) == IF v.defined THEN v.text ELSE <<"undefined">>

UploadedAndProcessed ==
    <<" uploaded and processed successfully! You can now ask questions about the document.">>

\* a faulty variant: isUploading is not set back
handleFileUploadTimer3_StaysBusy ==
    /\ route = "dashboard"
    /\ now' = now + 1
    /\ \E i \in DOMAIN uploadFrames, o \in UploadOutcomes :
        LET frame == uploadFrames[i]
            result == uploadFile(o)
            id == frame.newDocument.id
            completed == setStatus(documents, id, "completed")
        IN /\ frame.pc = "timer3"
           /\ timerDue(i)
           /\ uploadFrames' = Remove(uploadFrames, i)
           /\ last' = [op |-> "handleFileUploadTimer3",
                       arg |-> [frame |-> frame, o |-> o]]
           /\ IF result.isNull
              THEN /\ documents' = completed
                   /\ messages' = Append(messages,
                          [id |-> toString(now'), role |-> "assistant",
                           content |-> NullRead("error").message,
                           timestamp |-> now'])
                   /\ UNCHANGED listFrames
              ELSE IF truthy(result.error)
              THEN /\ documents' = setStatus(completed, id, "failed")
                   /\ messages' = Append(messages,
                          [id |-> toString(now'), role |-> "assistant",
                           content |-> result.error.text, timestamp |-> now'])
                   /\ listFrames' = listFrames + 1
              ELSE IF truthy(result.status)
                      /\ includes(result.status.text, <<"Error">>)
              THEN /\ documents' = setStatus(completed, id, "failed")
                   /\ messages' = Append(messages,
                          [id |-> toString(now'), role |-> "assistant",
                           content |-> result.status.text, timestamp |-> now'])
                   /\ listFrames' = listFrames + 1
              ELSE /\ documents' = completed
                   /\ messages' = Append(messages,
                          [id |-> toString(now'), role |-> "assistant",
                           content |-> <<"File ">> \o template(result.filename)
                                       \o UploadedAndProcessed,
                           timestamp |-> now'])
                   /\ listFrames' = listFrames + 1
    /\ uploadProgress' = 100
    /\ processingStage' = <<>>
    /\ UNCHANGED <<commands, route, inputValue, isUploading, isProcessing, temperature,
                   chatFrames>>
    /\ UNCHANGED <<deleteFrames, gateway, config>>

\* the last timer has fired: the rest of the handler, which ends by calling
\* loadDocuments without awaiting it; reading a field of a null result
\* throws into the catch block of the handler
handleFileUploadTimer3 ==
    /\ route = "dashboard"
    /\ now' = now + 1
    /\ \E i \in DOMAIN uploadFrames, o \in UploadOutcomes :
        LET frame == uploadFrames[i]
            result == uploadFile(o)
            id == frame.newDocument.id
            completed == setStatus(documents, id, "completed")
        IN /\ frame.pc = "timer3"
           /\ timerDue(i)
           /\ uploadFrames' = Remove(uploadFrames, i)
           /\ last' = [op |-> "handleFileUploadTimer3",
                       arg |-> [frame |-> frame, o |-> o]]
           /\ IF result.isNull
              THEN /\ documents' = completed
                   /\ messages' = Append(messages,
                          [id |-> toString(now'), role |-> "assistant",
                           content |-> NullRead("error").message,
                           timestamp |-> now'])
                   /\ UNCHANGED listFrames
              ELSE IF truthy(result.error)
              THEN /\ documents' = setStatus(completed, id, "failed")
                   /\ messages' = Append(messages,
                          [id |-> toString(now'), role |-> "assistant",
                           content |-> result.error.text, timestamp |-> now'])
                   /\ listFrames' = listFrames + 1
              ELSE IF truthy(result.status)
                      /\ includes(result.status.text, <<"Error">>)
              THEN /\ documents' = setStatus(completed, id, "failed")
                   /\ messages' = Append(messages,
                          [id |-> toString(now'), role |-> "assistant",
                           content |-> result.status.text, timestamp |-> now'])
                   /\ listFrames' = listFrames + 1
              ELSE /\ documents' = completed
                   /\ messages' = Append(messages,
                          [id |-> toString(now'), role |-> "assistant",
                           content |-> <<"File ">> \o template(result.filename)
                                       \o UploadedAndProcessed,
                           timestamp |-> now'])
                   /\ listFrames' = listFrames + 1
    /\ uploadProgress' = 100
    /\ isUploading' = FALSE
    /\ processingStage' = <<>>
    /\ UNCHANGED <<commands, route, inputValue, isProcessing, temperature,
                   chatFrames>>
    /\ UNCHANGED <<deleteFrames, gateway, config>>

---------------------------------------------------------------------------
(* Chat: handleFileUpload *)

Chat_handleFileUpload ==
    /\ route = "chat"
    \* the only button is disabled while isUploading
    /\ ~isUploading
    /\ \E file \in Files :
        /\ Counted
        /\ last' = [op |-> "handleFileUpload", arg |-> file]
        /\ IF ~isPdf(file)
           THEN /\ messages' = Append(messages,
                       [role |-> "assistant",
                        content |-> <<"Please upload a PDF file.">>])
                /\ UNCHANGED <<route, inputValue, isUploading, isProcessing,
                               documents, temperature, uploadProgress,
                               processingStage, chatFrames, uploadFrames,
                               listFrames, now>>
           ELSE IF tooLarge(file)
           THEN /\ messages' = Append(messages,
                       [role |-> "assistant",
                        content |-> <<"File size exceeds 10MB limit. Please upload a smaller file.">>])
                /\ UNCHANGED <<route, inputValue, isUploading, isProcessing,
                               documents, temperature, uploadProgress,
                               processingStage, chatFrames, uploadFrames,
                               listFrames, now>>
           ELSE /\ isUploading' = TRUE
                /\ uploadFrames' = Append(uploadFrames,
                       [file |-> file, pc |-> "uploadFile",
                        newDocument |-> NoDocument])
                /\ UNCHANGED <<route, messages, inputValue, isProcessing,
                               documents, temperature, uploadProgress,
                               processingStage, chatFrames, listFrames, now>>
    /\ UNCHANGED <<deleteFrames, gateway, config>>

\* uploadFile has resolved; the catch block is reached when a field of a
\* null result is read
Chat_handleFileUploadResume ==
    /\ route = "chat"
    /\ \E i \in DOMAIN uploadFrames, o \in UploadOutcomes :
        LET result == uploadFile(o)
            content ==
                IF result.isNull THEN <<"Error uploading file. Please try again.">>
                ELSE IF truthy(result.error) THEN result.error.text
                ELSE IF truthy(result.status)
                        /\ includes(result.status.text, <<"Error">>)
                THEN result.status.text
                ELSE <<"File ">> \o template(result.filename)
                     \o UploadedAndProcessed
        IN /\ messages' = Append(messages,
                              [role |-> "assistant", content |-> content])
           /\ uploadFrames' = Remove(uploadFrames, i)
           /\ last' = [op |-> "handleFileUploadResume", arg |-> o]
    /\ isUploading' = FALSE
    /\ UNCHANGED <<commands, route, inputValue, isProcessing, documents,
                   temperature, uploadProgress, processingStage, chatFrames,
                   listFrames, now>>
    /\ UNCHANGED <<deleteFrames, gateway, config>>

---------------------------------------------------------------------------
(* api.ts: deleteDocument *)

DeleteOutcomes ==
    {Response(200, <<"OK">>, [parse |-> "object"]),
     Rejected(<<"Failed to ", "fetch">>)}
    \cup {o \in ErrorStatuses : o.status \in {401, 404}}

\* deleteDocument rethrows what it catches: [threw, error]
deleteDocument(o) ==
    IF o.kind = "rejected" THEN [threw |-> TRUE, error |-> o.error]
    ELSE IF ~ok(o) THEN
        IF o.status = 401
        THEN [threw |-> TRUE, error |-> Error(AuthenticationRequired)]
        ELSE IF o.status >= 500
        THEN [threw |-> TRUE, error |-> Error(ServerError)]
        ELSE [threw |-> TRUE,
              error |-> Error(<<"Document deletion failed: ">>
                              \o toString(o.status) \o <<" ">> \o o.statusText)]
    ELSE IF o.body.parse = "syntaxError"
    THEN [threw |-> TRUE, error |-> SyntaxError]
    ELSE [threw |-> FALSE, error |-> NoError]

---------------------------------------------------------------------------
(* Dashboard: handleDeleteDocument *)

\* a faulty variant: the first entry is removed, whatever its id
without_First(docs, id) == IF docs = <<>> THEN docs ELSE Tail(docs)

\* prev.filter(doc => doc.id !== id)
without(docs, id) ==
    LET keep(doc) == doc.id # id IN SelectSeq(docs, keep)

\* a faulty variant: the entry is removed before the server is asked
handleDeleteDocument_Optimistic ==
    /\ route = "dashboard"
    /\ Counted
    /\ \E k \in DOMAIN documents :
        /\ deleteFrames' = Append(deleteFrames, documents[k].id)
        /\ documents' = without(documents, documents[k].id)
        /\ last' = [op |-> "handleDeleteDocument", arg |-> documents[k].id]
    /\ UNCHANGED <<route, messages, inputValue, isUploading, isProcessing,
                   temperature, uploadProgress, processingStage,
                   chatFrames, uploadFrames, listFrames, now>>
    /\ UNCHANGED <<gateway, config>>

\* the Delete button of a listed Document: the handler up to its await
handleDeleteDocument ==
    /\ route = "dashboard"
    /\ Counted
    /\ \E k \in DOMAIN documents :
        /\ deleteFrames' = Append(deleteFrames, documents[k].id)
        /\ last' = [op |-> "handleDeleteDocument", arg |-> documents[k].id]
    /\ UNCHANGED <<route, messages, inputValue, isUploading, isProcessing,
                   documents, temperature, uploadProgress, processingStage,
                   chatFrames, uploadFrames, listFrames, now>>
    /\ UNCHANGED <<gateway, config>>

\* a faulty variant: the Message takes the place of the timeline
handleDeleteDocumentResume_Replaces ==
    /\ route = "dashboard"
    /\ \E i \in DOMAIN deleteFrames, o \in DeleteOutcomes :
        LET id == deleteFrames[i]
            call == deleteDocument(o)
        IN /\ deleteFrames' = Remove(deleteFrames, i)
           /\ last' = [op |-> "handleDeleteDocumentResume",
                       arg |-> [id |-> id, o |-> o]]
           /\ IF call.threw
              THEN /\ messages' = <<assistantMessage(
                          IF call.error.message # <<>> THEN call.error.message
                          ELSE <<"Error deleting document. Please try again.">>)>>
                   /\ UNCHANGED documents
              ELSE /\ documents' = without(documents, id)
                   /\ messages' = <<assistantMessage(
                          <<"Document deleted successfully.">>)>>
    /\ UNCHANGED <<commands, route, inputValue, isUploading, isProcessing,
                   temperature, uploadProgress, processingStage, chatFrames,
                   uploadFrames, listFrames, now>>
    /\ UNCHANGED <<gateway, config>>

\* deleteDocument has resolved or thrown
handleDeleteDocumentResume ==
    /\ route = "dashboard"
    /\ \E i \in DOMAIN deleteFrames, o \in DeleteOutcomes :
        LET id == deleteFrames[i]
            call == deleteDocument(o)
        IN /\ deleteFrames' = Remove(deleteFrames, i)
           /\ last' = [op |-> "handleDeleteDocumentResume",
                       arg |-> [id |-> id, o |-> o]]
           /\ IF call.threw
              THEN /\ messages' = Append(messages, assistantMessage(
                          IF call.error.message # <<>> THEN call.error.message
                          ELSE <<"Error deleting document. Please try again.">>))
                   /\ UNCHANGED documents
              ELSE /\ documents' = without(documents, id)
                   /\ messages' = Append(messages, assistantMessage(
                          <<"Document deleted successfully.">>))
    /\ UNCHANGED <<commands, route, inputValue, isUploading, isProcessing,
                   temperature, uploadProgress, processingStage, chatFrames,
                   uploadFrames, listFrames, now>>
    /\ UNCHANGED <<gateway, config>>

---------------------------------------------------------------------------
(* Dashboard: the settings and their persistence *)

\* Number.prototype.toString for a number given in tenths
numberToString(n) ==
    IF n % 10 = 0 THEN toString(n \div 10)
    ELSE toString(n \div 10) \o <<".">> \o toString(n % 10)

\* the value of a digit character
digitValue(c) == (CHOOSE i \in DOMAIN digits : digits[i] = c) - 1

RECURSIVE parseInt(_)
parseInt(s) ==
    IF s = <<>> THEN 0
    ELSE 10 * parseInt(SubSeq(s, 1, Len(s) - 1)) + digitValue(s[Len(s)])

\* parseFloat, in tenths, of a text of digits with at most one decimal
parseFloat(s) ==
    IF \E i \in DOMAIN s : s[i] = "."
    THEN LET dot == CHOOSE i \in DOMAIN s : s[i] = "." IN
         10 * parseInt(SubSeq(s, 1, dot - 1))
            + (IF dot < Len(s) THEN digitValue(s[dot + 1]) ELSE 0)
    ELSE 10 * parseInt(s)

\* Boolean.prototype.toString
booleanToString(b) == IF b THEN <<"true">> ELSE <<"false">>

\* the initial values of the settings, read from localStorage
loadTemperature(ls) ==
    IF truthy(ls.temperature) THEN parseFloat(ls.temperature.text) ELSE 1
loadModel(ls) == IF truthy(ls.model) THEN ls.model.text ELSE DefaultModel
loadDarkMode(ls) == ls.darkMode = Str(<<"true">>)

\* the positions of the range input, in tenths, and its value attribute
SliderPositions == 0..10
\* the options of the select
Models == {<<"Flan-T5 Small">>, <<"Flan-T5 Base">>, <<"Flan-T5 Large">>}
\* the Advanced Settings inputs and values typed into them
AdvancedFields == {"chunkSize", "chunkOverlap", "maxTokens"}
AdvancedValues == {300, 500}

\* onChange of the range input, and the effect that persists temperature
setTemperature ==
    /\ route = "dashboard"
    /\ \E v \in SliderPositions :
        /\ temperature' = parseFloat(numberToString(v))
        /\ last' = [op |-> "setTemperature", arg |-> v]
    /\ localStorage' = [localStorage EXCEPT
                           !.temperature = Str(numberToString(temperature'))]
    /\ UNCHANGED <<session, model, darkMode, advanced, gateway>>

\* onChange of the select, and the effect that persists model
setModel ==
    /\ route = "dashboard"
    /\ \E v \in Models :
        /\ model' = v
        /\ last' = [op |-> "setModel", arg |-> v]
    /\ localStorage' = [localStorage EXCEPT !.model = Str(model')]
    /\ UNCHANGED <<session, temperature, darkMode, advanced, gateway>>

\* onChange of the checkbox, and the effect that persists darkMode
setDarkMode ==
    /\ route = "dashboard"
    /\ \E v \in BOOLEAN :
        /\ darkMode' = v
        /\ last' = [op |-> "setDarkMode", arg |-> v]
    /\ localStorage' = [localStorage EXCEPT
                           !.darkMode = Str(booleanToString(darkMode'))]
    /\ UNCHANGED <<session, temperature, model, advanced, gateway>>

\* a value is typed into an Advanced Settings input: the inputs have a
\* defaultValue and no handler
setAdvanced ==
    /\ route = "dashboard"
    /\ \E f \in AdvancedFields, v \in AdvancedValues :
        /\ advanced' = [advanced EXCEPT ![f] = v]
        /\ last' = [op |-> "setAdvanced", arg |-> [field |-> f, value |-> v]]
    /\ UNCHANGED <<session, temperature, model, darkMode, localStorage, gateway>>

\* the page is loaded afresh: the module state of api.ts and the component
\* state start anew, the settings are read from localStorage, and the mount
\* effects write them back and call loadDocuments
reload ==
    /\ route = "dashboard"
    /\ temperature' = loadTemperature(localStorage)
    /\ model' = loadModel(localStorage)
    /\ darkMode' = loadDarkMode(localStorage)
    /\ advanced' = DefaultAdvanced
    /\ localStorage' =
          [temperature |-> Str(numberToString(temperature')),
           model |-> Str(model'),
           darkMode |-> Str(booleanToString(darkMode'))]
    /\ messages' = <<>>
    /\ inputValue' = <<>>
    /\ isUploading' = FALSE
    /\ isProcessing' = FALSE
    /\ documents' = <<>>
    /\ uploadProgress' = 0
    /\ processingStage' = <<>>
    /\ chatFrames' = <<>>
    /\ uploadFrames' = <<>>
    /\ listFrames' = 1
    /\ deleteFrames' = <<>>
    /\ authToken' = Null
    /\ request' = NoRequest
    /\ returned' = NoResult
    /\ loginFrames' = <<>>
    /\ last' = [op |-> "reload", arg |-> <<>>]
    /\ UNCHANGED <<route, now, commands>>

\* the other of the two pages is opened by its address: as for a reload the
\* page starts anew, and only Dashboard reads and writes the settings kept
\* in localStorage
Routes == {"dashboard", "chat"}
openRoute ==
    /\ \E r \in Routes \ {route} :
        /\ route' = r
        /\ last' = [op |-> "openRoute", arg |-> r]
    /\ IF route' = "dashboard"
       THEN /\ temperature' = loadTemperature(localStorage)
            /\ model' = loadModel(localStorage)
            /\ darkMode' = loadDarkMode(localStorage)
            /\ localStorage' =
                  [temperature |-> Str(numberToString(temperature')),
                   model |-> Str(model'),
                   darkMode |-> Str(booleanToString(darkMode'))]
            /\ listFrames' = 1
       ELSE /\ temperature' = 1
            /\ model' = DefaultModel
            /\ darkMode' = FALSE
            /\ listFrames' = 0
            /\ UNCHANGED localStorage
    /\ advanced' = DefaultAdvanced
    /\ messages' = <<>>
    /\ inputValue' = <<>>
    /\ isUploading' = FALSE
    /\ isProcessing' = FALSE
    /\ documents' = <<>>
    /\ uploadProgress' = 0
    /\ processingStage' = <<>>
    /\ chatFrames' = <<>>
    /\ uploadFrames' = <<>>
    /\ deleteFrames' = <<>>
    /\ authToken' = Null
    /\ request' = NoRequest
    /\ returned' = NoResult
    /\ loginFrames' = <<>>
    /\ UNCHANGED <<now, commands>>

\* Dashboard with nothing but its settings being used
ConfigNext ==
    \/ setTemperature
    \/ setModel
    \/ setDarkMode
    \/ setAdvanced
    \/ reload

---------------------------------------------------------------------------
(* api.ts: the Authorization header, login and the other calls *)

\* at most this many login calls are suspended at a time
MaxLogins == 2

\* a faulty variant: the header is never attached
authorization_Never(token) == Undefined

\* ...(authToken && { "Authorization": `Basic ${authToken}` })
authorization(token) ==
    IF truthy(token) THEN Str(<<"Basic ">> \o token.text) ELSE Undefined

\* String.prototype.charCodeAt for the characters used
charCode(c) ==
    CASE c = "a" -> 97
      [] c = "b" -> 98
      [] c = ":" -> 58
      [] c = "E" -> 8364

Base64Chars ==
    <<"A", "B", "C", "D", "E", "F", "G", "H", "I", "J", "K", "L", "M", "N", "O",
      "P", "Q", "R", "S", "T", "U", "V", "W", "X", "Y", "Z", "a", "b", "c", "d",
      "e", "f", "g", "h", "i", "j", "k", "l", "m", "n", "o", "p", "q", "r", "s",
      "t", "u", "v", "w", "x", "y", "z", "0", "1", "2", "3", "4", "5", "6", "7",
      "8", "9", "+", "/">>

RECURSIVE base64(_)
base64(b) ==
    LET B(n) == Base64Chars[n + 1] IN
    IF b = <<>> THEN <<>>
    ELSE IF Len(b) = 1
    THEN <<B(b[1] \div 4), B((b[1] % 4) * 16), "=", "=">>
    ELSE IF Len(b) = 2
    THEN <<B(b[1] \div 4), B((b[1] % 4) * 16 + b[2] \div 16),
           B((b[2] % 16) * 4), "=">>
    ELSE <<B(b[1] \div 4), B((b[1] % 4) * 16 + b[2] \div 16),
           B((b[2] % 16) * 4 + b[3] \div 64), B(b[3] % 64)>>
         \o base64(SubSeq(b, 4, Len(b)))

\* btoa: throws when a character is outside Latin1
btoaThrows(s) == \E i \in DOMAIN s : charCode(s[i]) > 255
btoa(s) == base64([i \in DOMAIN s |-> charCode(s[i])])
InvalidCharacterError ==
    [name |-> "InvalidCharacterError",
     message |-> <<"Failed to execute 'btoa' on 'Window': The string to be encoded contains characters outside of the Latin1 range.">>]

\* the credentials typed, both fields being required and neither being
\* restricted in its characters: "E" stands for the euro sign, a character
\* outside Latin1
Credentials ==
    {[username |-> <<"a">>, password |-> <<"b">>],
     [username |-> <<"b">>, password |-> <<"a">>],
     [username |-> <<"E">>, password |-> <<"b">>],
     [username |-> <<"a", ":", "b">>, password |-> <<"a">>],
     [username |-> <<"a">>, password |-> <<"b", ":", "a">>]}

\* what fetch can deliver in all: the bodies given with status 200, the
\* error statuses, and the transport failures browsers report (Chromium
\* and Firefox name fetch in the message, Safari does not)
Outcomes(bodies) ==
    {Response(200, <<"OK">>, b) : b \in bodies}
    \cup ErrorStatuses
    \cup {Rejected(<<"Failed to ", "fetch">>), Rejected(<<"Load failed">>)}

LoginBody(success, message) ==
    [parse |-> "object", success |-> success, message |-> message]
LoginOutcomes ==
    Outcomes({LoginBody(TRUE, Str(<<"Login successful">>)),
              LoginBody(FALSE, Str(<<"Invalid credentials">>)),
              LoginBody(FALSE, Undefined),
              Unparseable, JsonNull})

\* what login returns: {success, message}
LoginResult(success, message) == [success |-> success, message |-> message]

\* the catch block of login
loginCatch(error) ==
    IF error.name = "TypeError" /\ includes(error.message, <<"fetch">>)
    THEN LoginResult(FALSE, Str(ConnectionFailed))
    ELSE IF error.message # <<>>
         THEN LoginResult(FALSE, Str(error.message))
         ELSE LoginResult(FALSE,
                  Str(<<"Login failed. Please check your credentials.">>))

\* the text btoa is given
identity(cred) == cred.username \o <<":">> \o cred.password

\* what login returns for the credentials and the fetch outcome o
login(cred, o) ==
    IF o.kind = "rejected" THEN loginCatch(o.error)
    ELSE IF ~ok(o) THEN
        IF o.status = 401
        THEN loginCatch(Error(<<"Invalid username or password.">>))
        ELSE IF o.status >= 500 THEN loginCatch(Error(ServerError))
        ELSE loginCatch(Error(<<"Login failed: ">> \o toString(o.status)
                              \o <<" ">> \o o.statusText))
    ELSE IF o.body.parse = "syntaxError" THEN loginCatch(SyntaxError)
    ELSE IF o.body.parse = "null" THEN loginCatch(NullRead("success"))
    ELSE IF o.body.success /\ btoaThrows(identity(cred))
    THEN loginCatch(InvalidCharacterError)
    ELSE LoginResult(o.body.success, o.body.message)

\* the token login stores, if it stores one
loginStores(cred, o) ==
    /\ o.kind = "response"
    /\ ok(o)
    /\ o.body.parse = "object"
    /\ o.body.success
    /\ ~btoaThrows(identity(cred))

\* login up to its await of fetch
loginCall ==
    /\ Len(loginFrames) < MaxLogins
    /\ \E cred \in Credentials :
        /\ loginFrames' = Append(loginFrames, cred)
        /\ last' = [op |-> "login", arg |-> cred]
    /\ request' = [path |-> "/login", authorization |-> Undefined]
    /\ UNCHANGED <<session, temperature, config, authToken, returned>>


\* a faulty variant: a login that does not succeed signs the user out
loginResume_ClearsOnFailure ==
    /\ \E i \in DOMAIN loginFrames, o \in LoginOutcomes :
        LET cred == loginFrames[i] IN
        /\ loginFrames' = Remove(loginFrames, i)
        /\ authToken' = IF loginStores(cred, o) THEN Str(btoa(identity(cred)))
                        ELSE Null
        /\ returned' = [of |-> "login", threw |-> FALSE,
                        value |-> login(cred, o)]
        /\ last' = [op |-> "loginResume", arg |-> [cred |-> cred, o |-> o]]
    /\ UNCHANGED <<session, temperature, config, request>>

\* login from its await on
loginResume ==
    /\ \E i \in DOMAIN loginFrames, o \in LoginOutcomes :
        LET cred == loginFrames[i] IN
        /\ loginFrames' = Remove(loginFrames, i)
        /\ authToken' = IF loginStores(cred, o) THEN Str(btoa(identity(cred)))
                        ELSE authToken
        /\ returned' = [of |-> "login", threw |-> FALSE,
                        value |-> login(cred, o)]
        /\ last' = [op |-> "loginResume", arg |-> [cred |-> cred, o |-> o]]
    /\ UNCHANGED <<session, temperature, config, request>>

\* getStatus: null for every failure
StatusOutcomes == Outcomes({[parse |-> "object"], Unparseable})
getStatus(o) ==
    IF o.kind = "rejected" \/ ~ok(o) \/ o.body.parse = "syntaxError"
    THEN [isNull |-> TRUE]
    ELSE [isNull |-> FALSE]

\* a call of one of the other functions of api.ts, from the fetch it starts
\* to what it returns or throws
Calls == {"sendMessage", "uploadFile", "getStatus", "listDocuments",
          "deleteDocument"}
path(fn) ==
    CASE fn = "sendMessage" -> "/chat"
      [] fn = "uploadFile" -> "/upload"
      [] fn = "getStatus" -> "/status"
      [] fn = "listDocuments" -> "/documents"
      [] fn = "deleteDocument" -> "/documents/{id}"
outcomesOf(fn) ==
    CASE fn = "sendMessage" ->
             Outcomes({ChatBody(Str(<<"4", "2">>)), Unparseable, JsonNull})
      [] fn = "uploadFile" ->
             Outcomes({UploadBody(Str(ServerFilename), Str(<<"success">>)),
                       Unparseable, JsonNull})
      [] fn = "getStatus" -> StatusOutcomes
      [] fn = "listDocuments" ->
             Outcomes({ListBody(List(<<ServerDocument>>)), Unparseable})
      [] fn = "deleteDocument" -> Outcomes({[parse |-> "object"], Unparseable})
outcomeOf(fn, o) ==
    CASE fn = "sendMessage" -> [threw |-> FALSE, value |-> sendMessage(o)]
      [] fn = "uploadFile" -> [threw |-> FALSE, value |-> uploadFile(o)]
      [] fn = "getStatus" -> [threw |-> FALSE, value |-> getStatus(o)]
      [] fn = "listDocuments" ->
             [threw |-> listDocuments(o).threw, value |-> listDocuments(o)]
      [] fn = "deleteDocument" ->
             [threw |-> deleteDocument(o).threw, value |-> deleteDocument(o)]

call ==
    /\ \E fn \in Calls :
        \E o \in outcomesOf(fn) :
            /\ request' = [path |-> path(fn),
                           authorization |-> authorization(authToken)]
            /\ returned' = [of |-> fn, threw |-> outcomeOf(fn, o).threw,
                            value |-> outcomeOf(fn, o).value]
            /\ last' = [op |-> fn, arg |-> o]
    /\ UNCHANGED <<session, temperature, config, authToken, loginFrames>>

\* the Logout button of the Settings tab: it has no onClick
Logout ==
    /\ route = "dashboard"
    /\ last' = [op |-> "Logout", arg |-> <<>>]
    /\ UNCHANGED <<session, temperature, config, gateway>>

\* api.ts with its callers left open
GatewayNext ==
    \/ loginCall
    \/ loginResume
    \/ call
    \/ Logout
    \/ reload

---------------------------------------------------------------------------

Next ==
    \/ handleDeleteDocument
    \/ handleDeleteDocumentResume
    \/ loadDocumentsResume
    \/ handleFileUpload
    \/ handleFileUploadResume
    \/ handleFileUploadTimer1
    \/ handleFileUploadTimer2
    \/ handleFileUploadTimer3
    \/ Chat_handleFileUpload
    \/ Chat_handleFileUploadResume
    \/ Tick
    \/ setInputValue
    \/ sendMessageToBackend
    \/ sendMessageResume
    \/ Chat_sendMessageToBackend
    \/ Chat_sendMessageResume

Spec == Init /\ [][Next]_vars

\* the network calls of suspended question handlers eventually complete
FairSpec ==
    /\ Spec
    /\ WF_vars(sendMessageResume)
    /\ WF_vars(Chat_sendMessageResume)

\* the /upload calls of suspended upload handlers eventually complete and
\* the timers they set eventually fire
UploadFairSpec ==
    /\ Spec
    /\ WF_vars(\/ handleFileUploadResume
               \/ handleFileUploadTimer1
               \/ handleFileUploadTimer2
               \/ handleFileUploadTimer3
               \/ Chat_handleFileUploadResume)

\* the two pages used for questions, with the temperature setting
QuestionNext ==
    \/ setTemperature
    \/ setInputValue
    \/ sendMessageToBackend
    \/ sendMessageResume
    \/ Chat_sendMessageToBackend
    \/ Chat_sendMessageResume
    \/ openRoute

QuestionSpec == Init /\ [][QuestionNext]_vars

\* Dashboard has been mounted
ConfigInit == Init /\ route = "dashboard"

ConfigSpec == ConfigInit /\ [][ConfigNext]_vars

\* the page has been loaded
GatewayInit == Init /\ route = "dashboard"

GatewaySpec == GatewayInit /\ [][GatewayNext]_vars

---------------------------------------------------------------------------
(* Claims *)

\* the last Message of a timeline
Last(seq) == seq[Len(seq)]
\* timeline after is timeline before with exactly one Message appended
AppendsOne(before, after) ==
    /\ Len(after) = Len(before) + 1
    /\ SubSeq(after, 1, Len(before)) = before

\* C1: at most one /chat request is outstanding in every state, and a send
\* issued while a question is being answered issues no request and appends
\* no Message.
C1_SingleFlightQuestions ==
    /\ [](Len(chatFrames) <= 1)
    /\ [][(last'.op = "sendMessageToBackend" /\ isProcessing)
            => (messages' = messages /\ chatFrames' = chatFrames)]_vars

\* a send was issued while a question was being answered
C1_Witness ==
    /\ last.op = "sendMessageToBackend"
    /\ last.arg = <<>>
    /\ isProcessing
    /\ Len(chatFrames) = 1

\* C3: whenever a question is being answered, the handler eventually
\* returns to Idle, whatever the /chat call delivers (FairSpec: the call
\* completes).
C3_AnsweringEnds == isProcessing ~> ~isProcessing

\* a question whose call failed before any status has been answered
C3_Witness ==
    /\ last.op = "sendMessageResume"
    /\ last.arg.kind = "rejected"
    /\ ~isProcessing
    /\ chatFrames = <<>>

\* C4: the step in which the /chat call of a send resolves appends exactly
\* one assistant Message, whatever the call delivered.
C4_RepliesNeverDropped ==
    [][Len(chatFrames') < Len(chatFrames)
        => /\ Len(chatFrames') = Len(chatFrames) - 1
           /\ AppendsOne(messages, messages')
           /\ Last(messages').role = "assistant"]_vars

\* a call that failed with an error status has left its timeline entry
C4_Witness ==
    /\ last.op = "sendMessageResume"
    /\ last.arg.kind = "response"
    /\ last.arg.status = 500
    /\ Last(messages).role = "assistant"
    /\ Last(messages).content = <<"Server error. Please try again later.">>

\* C6: a send whose input is blank after trimming changes nothing: no
\* Message, no /chat request, the flags and the rest of the state as before.
C6_BlankSendIsNoOp ==
    [][(last'.op = "sendMessageToBackend"
            /\ inputValue \in {<<>>, <<" ", "\t">>})
        => UNCHANGED <<state, commands>>]_vars

\* a whitespace-only input was sent while Idle
C6_Witness ==
    /\ last.op = "sendMessageToBackend"
    /\ last.arg = <<" ", "\t">>
    /\ inputValue = <<" ", "\t">>
    /\ ~isProcessing

\* C7: when the /chat call fails with status 401 the assistant Message
\* appended is the Unauthenticated text and the handler is Idle afterwards.
C7_UnauthenticatedReply ==
    [][(last'.op = "sendMessageResume" /\ last'.arg.status = 401)
        => /\ AppendsOne(messages, messages')
           /\ Last(messages').role = "assistant"
           /\ Last(messages').content = <<"Authentication required. Please login.">>
           /\ ~isProcessing']_vars

\* a 401 has been answered
C7_Witness ==
    /\ last.op = "sendMessageResume"
    /\ last.arg.status = 401
    /\ ~isProcessing
    /\ Len(messages) >= 2

\* C2: at most one upload (its /upload request or its staged sequence) is
\* in progress in every state.
C2_SingleFlightUploads == Len(uploadFrames) <= 1

\* a gateway success response {response: r}
Success(o) ==
    /\ o.kind = "response"
    /\ ok(o)
    /\ o.body.parse = "object"
    /\ o.body.response.defined

\* a non-blank question q sent while Idle adds the user Message q
SendAddsQuestion ==
    (last'.op = "sendMessageToBackend" /\ trim(inputValue) # <<>> /\ ~isProcessing)
        => /\ AppendsOne(messages, messages')
           /\ Last(messages').role = "user"
           /\ Last(messages').content = inputValue

\* the success response {response: r} adds the assistant Message r, after
\* the user Message of its question
SuccessAddsReply ==
    /\ AppendsOne(messages, messages')
    /\ Last(messages').role = "assistant"
    /\ Last(messages').content = last'.arg.body.response.text
    /\ \E k \in DOMAIN messages :
        /\ messages[k].role = "user"
        /\ messages[k].content = chatFrames[1].inputValue

DocumentIs(docs, f, status) ==
    \E k \in DOMAIN docs :
        docs[k].id = f.newDocument.id /\ docs[k].status = status

\* the upload call succeeded without an error string
UploadSucceeded(o) ==
    /\ o.kind = "response"
    /\ ok(o)
    /\ o.body.parse = "object"
    /\ ~includes(o.body.status.text, <<"Error">>)

\* C8: the Document of an upload whose call succeeds is Processing from the
\* call's return until the staged sequence ends, and Completed, not Failed,
\* when it has ended.  (Every upload in its staged sequence may be one
\* whose call succeeded: the handler reads the result when the sequence has
\* ended.)
C8_SuccessfulUploadCompletes ==
    /\ [](\A i \in DOMAIN uploadFrames :
            uploadFrames[i].pc # "uploadFile"
                => DocumentIs(documents, uploadFrames[i], "processing"))
    /\ [][(last'.op = "handleFileUploadTimer3" /\ UploadSucceeded(last'.arg.o))
            => /\ DocumentIs(documents', last'.arg.frame, "completed")
               /\ ~DocumentIs(documents', last'.arg.frame, "failed")]_vars

\* the Message tells of a successful upload
SuccessMessage(m) == includes(m.content, UploadedAndProcessed)

\* C9: when the handler of an accepted upload ends, with its Document still
\* listed, either the Document is Completed and the Message appended tells
\* of success, or the Document is Failed and the Message appended does not.
C9_OutcomesExclusive ==
    [][(last'.op = "handleFileUploadTimer3"
            /\ \E k \in DOMAIN documents :
                    documents[k].id = last'.arg.frame.newDocument.id)
        => /\ AppendsOne(messages, messages')
           /\ \/ /\ DocumentIs(documents', last'.arg.frame, "completed")
                 /\ ~DocumentIs(documents', last'.arg.frame, "failed")
                 /\ SuccessMessage(Last(messages'))
              \/ /\ DocumentIs(documents', last'.arg.frame, "failed")
                 /\ ~DocumentIs(documents', last'.arg.frame, "completed")
                 /\ ~SuccessMessage(Last(messages'))]_vars

\* names that do not end in ".pdf", whatever the case of their letters
NonPdfNames == {<<"a", "p", "d", "f">>, <<"a", ".", "p", "n", "g">>}

\* C10: an upload of a file whose name does not end in ".pdf" creates no
\* Document and starts no /upload request, in any state.
C10_NonPdfRejected ==
    [][(last'.op = "handleFileUpload" /\ last'.arg.name \in NonPdfNames)
        => /\ documents' = documents
           /\ uploadFrames' = uploadFrames]_vars

\* a file named "apdf" was tried while another upload was in progress
C10_Witness ==
    /\ last.op = "handleFileUpload"
    /\ last.arg.name = <<"a", "p", "d", "f">>
    /\ isUploading
    /\ Len(uploadFrames) = 1
    /\ Last(messages).content = <<"Please upload a PDF file.">>

\* C11: an upload of a file larger than 10 MiB creates no Document and
\* starts no /upload request; a .pdf file of exactly 10 MiB passes the size
\* gate and its /upload request is started.
C11_SizeGate ==
    /\ [][(last'.op = "handleFileUpload" /\ last'.arg.size > 10485760)
            => /\ documents' = documents
               /\ uploadFrames' = uploadFrames]_vars
    /\ [][(last'.op = "handleFileUpload" /\ last'.arg.size = 10485760
                /\ last'.arg.name = <<"A", ".", "P", "D", "F">>)
            => /\ Len(uploadFrames') = Len(uploadFrames) + 1
               /\ Last(uploadFrames').file = last'.arg
               /\ messages' = messages]_vars

\* a .pdf file of 10 MiB and one byte was turned away
C11_Witness ==
    /\ last.op = "handleFileUpload"
    /\ last.arg.name = <<"a", ".", "p", "d", "f">>
    /\ last.arg.size = 10485761
    /\ uploadFrames = <<>>
    /\ documents = <<>>
    /\ Last(messages).content =
          <<"File size exceeds 10MB limit. Please upload a smaller file.">>

\* the DELETE call of the step's outcome o succeeded
Deleted(o) == o.kind = "response" /\ ok(o) /\ o.body.parse = "object"

\* the places of the entries of docs with the id given
Entries(docs, id) == {k \in DOMAIN docs : docs[k].id = id}

\* C12: the step that starts a delete leaves the Document collection as it
\* is, and so does the step in which its DELETE call fails.
C12_ServerFirstDelete ==
    /\ [][last'.op = "handleDeleteDocument" => documents' = documents]_vars
    /\ [][(last'.op = "handleDeleteDocumentResume" /\ ~Deleted(last'.arg.o))
            => documents' = documents]_vars

\* a DELETE call failed with 404 and the Document is still listed
C12_Witness ==
    /\ last.op = "handleDeleteDocumentResume"
    /\ last.arg.o.status = 404
    /\ Entries(documents, last.arg.id) # {}
    /\ Last(messages).content =
          <<"Document deletion failed: ", "4", "0", "4", " ", "Not Found">>

\* C13 as stated: when the id of a delete is not in the collection, a failed
\* call leaves the collection as it is and a call that succeeds removes
\* exactly one entry.
C13_AbsentIdRemovesOne ==
    [][(last'.op = "handleDeleteDocumentResume"
            /\ Entries(documents, last'.arg.id) = {})
        => IF Deleted(last'.arg.o)
           THEN Len(documents') = Len(documents) - 1
           ELSE documents' = documents]_vars

\* C13: a delete whose call fails leaves the collection as it is; one whose
\* call succeeds removes the entries with its id and no other, which is no
\* entry when the id is not in the collection.
C13_RemovesEntriesOfId ==
    [][last'.op = "handleDeleteDocumentResume"
        => IF Deleted(last'.arg.o)
           THEN /\ Len(documents') = Len(documents)
                       - Cardinality(Entries(documents, last'.arg.id))
                /\ Entries(documents', last'.arg.id) = {}
                /\ \A k \in DOMAIN documents :
                      documents[k].id # last'.arg.id
                          => \E j \in DOMAIN documents' :
                                documents'[j] = documents[k]
                /\ Entries(documents, last'.arg.id) = {}
                      => documents' = documents
           ELSE documents' = documents]_vars

\* two deletes of the one listed Document both succeeded: the id of the
\* second was no longer in the collection
C13_Witness ==
    /\ last.op = "handleDeleteDocumentResume"
    /\ Deleted(last.arg.o)
    /\ commands = 2
    /\ deleteFrames = <<>>
    /\ documents = <<>>
    /\ Len(messages) = 2
    /\ \A k \in DOMAIN messages :
          messages[k].content = <<"Document deleted successfully.">>

\* the listing call of the step's outcome o failed
ListingFailed(o) == o.kind = "rejected" \/ ~ok(o) \/ o.body.parse = "syntaxError"

\* C14: the step in which a refresh of the collection fails leaves the
\* collection, entries and statuses, as it was.
C14_FailedRefreshKeepsCollection ==
    [][(last'.op = "loadDocumentsResume" /\ ListingFailed(last'.arg))
        => documents' = documents]_vars

\* the refresh after an upload failed with 500 and the Document uploaded is
\* still listed as Completed
C14_Witness ==
    /\ last.op = "loadDocumentsResume"
    /\ last.arg.status = 500
    /\ Len(documents) = 1
    /\ documents[1].status = "completed"
    /\ documents[1].name = <<"A", ".", "P", "D", "F">>
    /\ Last(messages).content =
          <<"Error loading documents. Please refresh the page or check your connection.">>

\* the steps of the upload pipeline
PipelineOps ==
    {"handleFileUpload", "handleFileUploadResume", "handleFileUploadTimer1",
     "handleFileUploadTimer2", "handleFileUploadTimer3"}

\* C20: no step of the upload pipeline changes the status of a Document
\* that is Completed or Failed.
C20_TerminalStatuses ==
    [][last'.op \in PipelineOps
        => \A k \in DOMAIN documents :
              documents[k].status \in {"completed", "failed"}
                  => /\ k \in DOMAIN documents'
                     /\ documents'[k].id = documents[k].id
                     /\ documents'[k].status = documents[k].status]_vars

\* C15 as stated: a change of one Config field changes that field alone,
\* and a fresh load from the persisted store gives every field
\* (temperature, model, darkMode, chunkSize, chunkOverlap, maxTokens) the
\* value it had before the load.
C15_ConfigRoundTrip ==
    /\ [][last'.op = "setTemperature"
            => /\ temperature' = last'.arg
               /\ UNCHANGED <<model, darkMode, advanced>>]_vars
    /\ [][last'.op = "setModel"
            => /\ model' = last'.arg
               /\ UNCHANGED <<temperature, darkMode, advanced>>]_vars
    /\ [][last'.op = "setDarkMode"
            => /\ darkMode' = last'.arg
               /\ UNCHANGED <<temperature, model, advanced>>]_vars
    /\ [][last'.op = "setAdvanced"
            => /\ advanced'[last'.arg.field] = last'.arg.value
               /\ \A f \in AdvancedFields \ {last'.arg.field} :
                     advanced'[f] = advanced[f]
               /\ UNCHANGED <<temperature, model, darkMode>>]_vars
    /\ [][last'.op = "reload"
            => UNCHANGED <<temperature, model, darkMode, advanced>>]_vars

\* the /login call of outcome o was answered with success
LoginAccepted(o) ==
    /\ o.kind = "response"
    /\ ok(o)
    /\ o.body.parse = "object"
    /\ o.body.success

\* C16: a login answered with success leaves the Auth Token non-null; a
\* logout or a restart leaves it null; and a request issued while it is
\* null carries no Authorization header.
C16_AuthRoundTrip ==
    /\ [][(last'.op = "loginResume" /\ LoginAccepted(last'.arg.o))
            => authToken'.defined]_vars
    /\ [][last'.op \in {"Logout", "reload"} => ~authToken'.defined]_vars
    /\ [][(last'.op \in Calls /\ ~authToken.defined)
            => ~request'.authorization.defined]_vars

\* C17: login does not throw; what it returns has success true only when
\* the /login call was answered 2xx with success true, and has success
\* false and a message for every other outcome.
C17_LoginNeverThrows ==
    last.op = "loginResume"
        => /\ returned.of = "login"
           /\ ~returned.threw
           /\ returned.value.success => LoginAccepted(last.arg.o)
           /\ ~returned.value.success => truthy(returned.value.message)

\* C18: no call of api.ts throws to its caller.
C18_GatewayNeverThrows == ~returned.threw

\* C19: a request to /chat, /upload, /status, /documents or /documents/{id}
\* carries an Authorization header exactly when the Auth Token is non-null
\* as the request is issued, its value being "Basic " and that token; the
\* /login request carries none.
C19_HeaderFollowsToken ==
    /\ [][last'.op \in Calls
            => /\ request'.path \in {"/chat", "/upload", "/status",
                                     "/documents", "/documents/{id}"}
               /\ request'.authorization.defined <=> authToken.defined
               /\ authToken.defined
                    => request'.authorization.text
                          = <<"Basic ">> \o authToken.text]_vars
    /\ [][last'.op = "login"
            => /\ request'.path = "/login"
               /\ ~request'.authorization.defined]_vars

\* after a login as b:a that followed one as a:b, an /upload request
\* carries the token of b:a
C19_Witness ==
    /\ last.op = "uploadFile"
    /\ request.path = "/upload"
    /\ authToken = Str(<<"Y", "j", "p", "h">>)
    /\ request.authorization = Str(<<"Basic ", "Y", "j", "p", "h">>)

\* the /upload call of outcome o resolved with an error: a status that is
\* not 2xx, or no status at all
UploadErrored(o) == o.kind = "rejected" \/ ~ok(o)

\* C21: an upload whose /upload call resolved with an error has created no
\* Document for its file: its handler holds none when it ends, and none
\* with the handler's id is listed.
C21_DocumentOnlyIfAccepted ==
    [][(last'.op = "handleFileUploadTimer3" /\ UploadErrored(last'.arg.o))
        => /\ last'.arg.frame.newDocument = NoDocument
           /\ \A k \in DOMAIN documents' :
                 documents'[k].id # last'.arg.frame.newDocument.id]_vars

\* the places of the user Messages of a timeline
UserPlaces(msgs) == {k \in DOMAIN msgs : msgs[k].role = "user"}

\* C22: a question is accepted only when no earlier question awaits its
\* reply, and its user Message goes to the end of the timeline; the reply
\* to a question is appended at the end while that question's user Message
\* is the latest user Message.  So in every state there is an assistant
\* Message between any two user Messages, and one after the last when no
\* question is being answered.
C22_RepliesInOrder ==
    /\ [][(last'.op = "sendMessageToBackend" /\ messages' # messages)
            => /\ chatFrames = <<>>
               /\ AppendsOne(messages, messages')
               /\ Last(messages').role = "user"
               /\ Len(chatFrames') = 1
               /\ chatFrames'[1].userMessage = Last(messages')]_vars
    /\ [][last'.op = "sendMessageResume"
            => /\ Len(chatFrames) = 1
               /\ chatFrames' = <<>>
               /\ AppendsOne(messages, messages')
               /\ Last(messages').role = "assistant"
               /\ \E k \in UserPlaces(messages) :
                     /\ messages[k] = chatFrames[1].userMessage
                     /\ \A j \in UserPlaces(messages) : j <= k]_vars
    /\ [](\A i \in UserPlaces(messages) :
            /\ \A j \in UserPlaces(messages) :
                  i < j => \E k \in (i + 1)..(j - 1) :
                              messages[k].role = "assistant"
            /\ chatFrames = <<>>
                  => \E k \in (i + 1)..Len(messages) :
                        messages[k].role = "assistant")

\* two questions were asked on the Dashboard one after the other and each
\* got its reply before the next Message of the user
C22_Witness ==
    /\ route = "dashboard"
    /\ last.op = "sendMessageResume"
    /\ chatFrames = <<>>
    /\ Len(messages) = 4
    /\ messages[1].role = "user"
    /\ messages[2].role = "assistant"
    /\ messages[3].role = "user"
    /\ messages[4].role = "assistant"

\* timeline after begins with timeline before
Extends(before, after) ==
    /\ Len(after) >= Len(before)
    /\ SubSeq(after, 1, Len(before)) = before

\* C23: every step of the session (a send, a reply, an upload and its
\* stages, a validation failure, a delete, a refresh of the collection)
\* leaves the Messages of the timeline in place and as they are, and adds
\* at most one Message, at the end.
C23_TimelineAppendOnly ==
    [][/\ Extends(messages, messages')
       /\ Len(messages') <= Len(messages) + 1]_vars

\* a question, its reply and then the Message of a delete are in the
\* timeline in the order they came
C23_Witness ==
    /\ last.op = "handleDeleteDocumentResume"
    /\ Len(messages) = 3
    /\ messages[1].role = "user"
    /\ messages[2].role = "assistant"
    /\ messages[3].content = <<"Document deleted successfully.">>

\* the steps in which the handler of an upload ends
UploadEnds == {"handleFileUploadTimer3", "handleFileUploadResume"}

\* C24: a non-blank send made while no question is being answered is
\* accepted whether or not a file is being uploaded, and leaves the upload
\* alone; a valid file can be chosen while a question is being answered
\* (Dashboard always, Chat when no other file is being uploaded), its upload
\* starts and leaves the question alone; the reply to a question asked
\* during an upload ends the answering, and the end of an upload made during
\* a question ends the uploading, each with its own Message.
C24_UploadsAndQuestionsIndependent ==
    /\ [][(last'.op = "sendMessageToBackend" /\ ~blank(inputValue)
                /\ ~isProcessing /\ commands < MaxCommands)
            => /\ Len(chatFrames') = Len(chatFrames) + 1
               /\ isProcessing'
               /\ UNCHANGED <<uploadFrames, isUploading, documents>>]_vars
    /\ [](commands < MaxCommands
            => /\ route = "dashboard" => ENABLED handleFileUpload
               /\ (route = "chat" /\ ~isUploading)
                     => ENABLED Chat_handleFileUpload)
    /\ [][(last'.op = "handleFileUpload" /\ isPdf(last'.arg)
                /\ ~tooLarge(last'.arg))
            => /\ Len(uploadFrames') = Len(uploadFrames) + 1
               /\ isUploading'
               /\ UNCHANGED <<chatFrames, isProcessing, messages>>]_vars
    /\ [][(last'.op = "sendMessageResume" /\ uploadFrames # <<>>)
            => /\ AppendsOne(messages, messages')
               /\ ~isProcessing'
               /\ UNCHANGED <<uploadFrames, isUploading, documents>>]_vars
    /\ [][(last'.op \in UploadEnds /\ Len(uploadFrames') < Len(uploadFrames)
                /\ chatFrames # <<>>)
            => /\ AppendsOne(messages, messages')
               /\ ~isUploading'
               /\ UNCHANGED <<chatFrames, isProcessing>>]_vars

\* a question and an upload overlapped: the upload ended with its Message
\* while the question was being answered, and then the reply came
C24_Witness ==
    /\ last.op = "sendMessageResume"
    /\ commands = 2
    /\ Len(messages) = 3
    /\ messages[1].role = "user"
    /\ includes(messages[2].content, UploadedAndProcessed)
    /\ messages[3].role = "assistant"
    /\ ~isProcessing
    /\ ~isUploading

\* the step that led to this state ended the handler of an upload
UploadEnded ==
    \/ last.op = "handleFileUploadTimer3"
    \/ route = "chat" /\ last.op = "handleFileUploadResume"

\* C25: whenever isUploading is true it eventually becomes false
\* (UploadFairSpec: the /upload call completes and the timers fire); the
\* step that ends an upload leaves isUploading false whatever the call
\* delivered; and in the state it leaves, a file can be chosen, the upload
\* of a valid file is started, and an eligible send is accepted.
C25_UploadingEnds ==
    /\ isUploading ~> ~isUploading
    /\ [](UploadEnded => ~isUploading)
    /\ []((UploadEnded /\ commands < MaxCommands)
            => ENABLED (handleFileUpload \/ Chat_handleFileUpload))
    /\ [][(UploadEnded /\ last'.op = "handleFileUpload" /\ isPdf(last'.arg)
                /\ ~tooLarge(last'.arg))
            => /\ Len(uploadFrames') = Len(uploadFrames) + 1
               /\ isUploading']_vars
    /\ [][(UploadEnded /\ last'.op = "sendMessageToBackend"
                /\ ~blank(inputValue) /\ ~isProcessing)
            => /\ Len(chatFrames') = Len(chatFrames) + 1
               /\ Last(messages').content = inputValue]_vars

\* an upload failed with status 500 and the next upload has been started
C25_Witness ==
    /\ last.op = "handleFileUpload"
    /\ commands = 2
    /\ isUploading
    /\ Len(uploadFrames) = 1
    /\ uploadFrames[1].pc = "uploadFile"
    /\ messages # <<>>
    /\ Last(messages).content =
          <<"Upload failed: ", "5", "0", "0", " ", "Internal Server Error">>

\* the /upload outcome of the step that ends an upload
UploadOutcome(l) == IF l.op = "handleFileUploadTimer3" THEN l.arg.o ELSE l.arg

\* the step ends an upload whose call was answered with the status given
UploadAnswered(statuses) ==
    /\ \/ last'.op = "handleFileUploadTimer3"
       \/ route = "chat" /\ last'.op = "handleFileUploadResume"
    /\ UploadOutcome(last').status \in statuses

\* C26: the Message of an upload whose call was answered 5xx is the
\* ServerFault text, and the Message of an upload, a refresh of the
\* collection or a delete whose call was answered 401 is the
\* Unauthenticated text of the chat.
C26_UniformTaxonomy ==
    /\ [][UploadAnswered(500..599)
            => /\ AppendsOne(messages, messages')
               /\ Last(messages').content = ServerError]_vars
    /\ [][UploadAnswered({401})
            => /\ AppendsOne(messages, messages')
               /\ Last(messages').content = AuthenticationRequired]_vars
    /\ [][(last'.op = "loadDocumentsResume" /\ last'.arg.status = 401)
            => /\ AppendsOne(messages, messages')
               /\ Last(messages').content = AuthenticationRequired]_vars
    /\ [][(last'.op = "handleDeleteDocumentResume" /\ last'.arg.o.status = 401)
            => /\ AppendsOne(messages, messages')
               /\ Last(messages').content = AuthenticationRequired]_vars

\* the calls of api.ts in flight, one request each: /chat, /upload, DELETE
Requests ==
    [chat |-> Len(chatFrames),
     upload |-> Cardinality({i \in DOMAIN uploadFrames :
                                uploadFrames[i].pc = "uploadFile"}),
     delete |-> Len(deleteFrames)]

\* the step issues exactly one request of the kind given and no other
Issues(kind) ==
    Requests' = [Requests EXCEPT ![kind] = Requests[kind] + 1]
\* the step ends exactly one request of the kind given and issues none
Settles(kind) ==
    Requests' = [Requests EXCEPT ![kind] = Requests[kind] - 1]

\* C27: a send that is accepted issues exactly one /chat request, the start
\* of an upload exactly one /upload request, a delete exactly one DELETE
\* request; the step in which a request is answered, rejected or answered
\* with an error ends that request and issues none; and no other step
\* issues such a request.
C27_NoRetries ==
    [][CASE last'.op = "sendMessageToBackend" ->
                IF messages' # messages THEN Issues("chat")
                ELSE Requests' = Requests
         [] last'.op = "handleFileUpload" ->
                IF isPdf(last'.arg) /\ ~tooLarge(last'.arg)
                THEN Issues("upload") ELSE Requests' = Requests
         [] last'.op = "handleDeleteDocument" -> Issues("delete")
         [] last'.op = "sendMessageResume" -> Settles("chat")
         [] last'.op = "handleFileUploadResume" -> Settles("upload")
         [] last'.op = "handleDeleteDocumentResume" -> Settles("delete")
         [] OTHER -> Requests' = Requests]_vars

\* in Chat the one /upload request of an upload was answered 500 and no
\* request is in flight
C27_Witness ==
    /\ route = "chat"
    /\ last.op = "handleFileUploadResume"
    /\ last.arg.status = 500
    /\ commands = 1
    /\ Requests = [chat |-> 0, upload |-> 0, delete |-> 0]
    /\ Len(messages) = 1

\* C28: no two Messages of the Dashboard timeline have the same id (the
\* Messages of Chat carry no id).
C28_MessageIdsUnique ==
    route = "dashboard"
        => \A i, j \in DOMAIN messages :
              i # j => messages[i].id # messages[j].id

\* C29: no two entries of the Document collection have the same id.
C29_DocumentIdsUnique ==
    \A i, j \in DOMAIN documents :
        i # j => documents[i].id # documents[j].id

\* C30: isUploading is true in every state in which the handler of an
\* upload is suspended, at its /upload call or at one of its timers, and in
\* every state in which a Document is listed as Processing.
C30_UploadingSpansPipeline ==
    /\ uploadFrames # <<>> => isUploading
    /\ \A k \in DOMAIN documents :
          documents[k].status = "processing" => isUploading

\* C31: sendMessage maps every outcome of the /chat call to one result
\* text: status 401 to the Unauthenticated text, 404 to the NotFound text,
\* a status of 500 or more to the ServerFault text, another status outside
\* 2xx to a text carrying the status and its reason, and a fetch that was
\* rejected before any status to the ConnectionFailed text.
C31_ChatClassification ==
    last.op = "sendMessage"
        => LET o == last.arg
               r == returned.value.response
           IN /\ ~returned.threw
              /\ o.kind = "rejected" => r = Str(ConnectionFailed)
              /\ (o.kind = "response" /\ ~ok(o))
                    => /\ r.defined
                       /\ o.status = 401 => r.text = AuthenticationRequired
                       /\ o.status = 404 => r.text = ServiceNotFound
                       /\ o.status >= 500 => r.text = ServerError
                       /\ (o.status \notin {401, 404} /\ o.status < 500)
                            => /\ includes(r.text, toString(o.status))
                               /\ includes(r.text, o.statusText)
                               /\ r.text \notin {AuthenticationRequired,
                                     ServiceNotFound, ServerError,
                                     ConnectionFailed}

\* the temperature of the Config as it is kept, in tenths
ConfigTemperature == loadTemperature(localStorage)

\* C32: the /chat call of a send that is accepted is given the text of the
\* question and the temperature the Config holds as the send is made.
C32_RequestCarriesTemperature ==
    [][(last'.op = "sendMessageToBackend" /\ chatFrames' # chatFrames)
        => /\ Last(chatFrames').inputValue = inputValue
           /\ Last(chatFrames').temperature = ConfigTemperature]_vars

\* the listing call of outcome o delivered a list
ListingSucceeded(o) ==
    /\ o.kind = "response"
    /\ ok(o)
    /\ o.body.parse = "object"
    /\ o.body.documents.defined

\* the ids of a collection, in its order
Ids(docs) == [k \in DOMAIN docs |-> docs[k].id]

Explanations ==
    {<<"Please upload a PDF file.">>,
     <<"File size exceeds 10MB limit. Please upload a smaller file.">>}

\* C34: the choice of a file whose name does not end in ".pdf" or whose
\* size is above 10 MiB appends one assistant Message that explains it and
\* changes nothing else: the Documents, the flags, the stage and progress,
\* the input, and the calls in flight are as before, whether or not an
\* upload is in flight.
C34_RejectionChangesNothingElse ==
    [][(last'.op = "handleFileUpload"
            /\ (last'.arg.name \in NonPdfNames \/ last'.arg.size > 10485760))
        => /\ AppendsOne(messages, messages')
           /\ Last(messages').role = "assistant"
           /\ Last(messages').content \in Explanations
           /\ UNCHANGED <<documents, isUploading, isProcessing, inputValue,
                          uploadProgress, processingStage, chatFrames,
                          uploadFrames, listFrames, deleteFrames,
                          temperature, config, gateway>>]_vars

\* a .pdf file above the limit was chosen on the Dashboard while an upload
\* was at its second stage
C34_Witness ==
    /\ route = "dashboard"
    /\ last.op = "handleFileUpload"
    /\ last.arg.size = 10485761
    /\ isUploading
    /\ Len(uploadFrames) = 1
    /\ uploadFrames[1].pc = "timer2"
    /\ Len(documents) = 1
    /\ Last(messages).content =
          <<"File size exceeds 10MB limit. Please upload a smaller file.">>

\* the step is a login answered with success whose pair can be encoded
Encoded(l) ==
    /\ l.op = "loginResume"
    /\ LoginAccepted(l.arg.o)
    /\ \A i \in DOMAIN identity(l.arg.cred) :
          charCode(identity(l.arg.cred)[i]) <= 255

\* C35: two logins answered with success one after the other, with
\* different pairs of username and password, leave different Auth Tokens.
C35_TokenIdentifiesPair ==
    [][(Encoded(last) /\ Encoded(last')
            /\ last'.arg.cred # last.arg.cred)
        => authToken' # authToken]_vars

\* C36: when a delete has succeeded while a listing request was outstanding,
\* the arrival of that listing's response does not put the Document
\* deleted back into the collection.
C36_DeleteSurvivesStaleRefresh ==
    [][(last.op = "handleDeleteDocumentResume" /\ Deleted(last.arg.o)
            /\ listFrames > 0
            /\ last'.op = "loadDocumentsResume")
        => Entries(documents', last.arg.id) = {}]_vars

\* C37: in every state the Document of each upload that is in its staged
\* sequence is in the collection, and the arrival of a listing response
\* leaves it there.
C37_DocumentStaysUntilResolved ==
    /\ [](\A i \in DOMAIN uploadFrames :
            uploadFrames[i].pc \in {"timer1", "timer2", "timer3"}
                => Entries(documents, uploadFrames[i].newDocument.id) # {})
    /\ [][last'.op = "loadDocumentsResume"
            => \A i \in DOMAIN uploadFrames :
                  Entries(documents, uploadFrames[i].newDocument.id) # {}
                      => Entries(documents', uploadFrames[i].newDocument.id)
                            # {}]_vars

\* the user Messages of the timeline that are not the question being
\* answered
Answered == Cardinality(UserPlaces(messages))
                - (IF isProcessing THEN 1 ELSE 0)

\* the reply Messages a step of the session adds to the timeline: only the
\* continuation of a send produces replies
RepliesAdded ==
    IF last'.op = "sendMessageResume"
    THEN Cardinality({k \in DOMAIN messages' : messages'[k].role = "assistant"})
            - Cardinality({k \in DOMAIN messages : messages[k].role = "assistant"})
    ELSE 0

\* C38: counted from the opening of the page, the reply Messages produced by
\* sends are as many as the user Messages, less one while a question is being
\* answered: a page opens with no user Message and idle, every step adds as
\* many replies as it adds to the user Messages that are not being answered,
\* and a question is being answered exactly while isProcessing is true.
C38_RepliesMatchQuestions ==
    /\ Answered = 0
    /\ [](isProcessing <=> Len(chatFrames) = 1)
    /\ [](Len(chatFrames) <= 1)
    /\ [][IF last'.op = "openRoute"
          THEN Answered' = 0
          ELSE Answered' - Answered = RepliesAdded]_vars

\* a question was asked and answered and a second one is being answered,
\* with an assistant Message that is no reply in the timeline as well
C38_Witness ==
    /\ route = "dashboard"
    /\ isProcessing
    /\ Cardinality(UserPlaces(messages)) = 2
    /\ Answered = 1
    /\ Len(messages) = 4
    /\ last.op = "sendMessageToBackend"

\* C39: a login that was not answered with success (an error status, no
\* status at all, or a 2xx body without success true) leaves the Auth Token
\* as it was.
C39_FailedLoginKeepsToken ==
    [][(last'.op = "loginResume" /\ ~LoginAccepted(last'.arg.o))
        => authToken' = authToken]_vars

\* after a login as a:b succeeded, a login as b:a was answered 401 and the
\* token of a:b is still held
C39_Witness ==
    /\ last.op = "loginResume"
    /\ last.arg.cred = [username |-> <<"b">>, password |-> <<"a">>]
    /\ last.arg.o.kind = "response"
    /\ last.arg.o.status = 401
    /\ authToken = Str(<<"Y", "T", "p", "i">>)

\* C40: on the Dashboard the progress label is non-empty in every state
\* where isUploading or isProcessing is true, and empty in every state where
\* both are false.
C40_StageShownWhileBusy ==
    route = "dashboard"
        => ((isUploading \/ isProcessing) <=> processingStage # <<>>)

=============================================================================
